---- MODULE Spec2Model ----
(***************************************************************************)
(* A model of the quote comparison pipeline of randon-router:              *)
(* getQuoteComparison (token resolution, reference price, three settled    *)
(* batches of quote adapters, calculateScores, ranking) raced against a    *)
(* 100 second timer.                                                       *)
(*                                                                         *)
(* JavaScript values are encoded as follows.                               *)
(*   null / undefined   the empty tuple Null; a present value v is <<v>>   *)
(*   strings that the code inspects (symbols, amounts) are tuples of       *)
(*   one-character strings, so that toLowerCase and Number act on them     *)
(*   numbers            records [k, n, d]: the rational n/d (k = "fin"),   *)
(*                      NaN (k = "nan") or +Infinity (k = "inf")           *)
(***************************************************************************)
EXTENDS Integers, Sequences, FiniteSets, TLC

VARIABLES
    req,        \* the request data of the handler, Null before the call
    pc,         \* position of the pipeline (the first promise of the race)
    tokenIn,    \* local of the pipeline: the resolved input token
    tokenOut,   \* local of the pipeline: the resolved output token
    tokenList,  \* local of the pipeline: result of getTokenListInternal
    gasPriceRaw,\* local of the pipeline: result of callBlazingTokenPrice
    promises,   \* the promises of the batch being awaited by settleQuotes
    started,    \* labels of the adapter calls issued so far
    rejected,   \* labels of the adapter calls whose promise rejected
    baseQuotes, \* local of the pipeline: result of the first settleQuotes
    chunkQuotes,\* local of the pipeline: result of the second settleQuotes
    pipeline,   \* settlement of the pipeline promise
    timer,      \* "unset", "armed" or "fired": the setTimeout of the race
    response,   \* what the handler returned, Null while it is suspended
    tasks,      \* (settleQuotes alone) the labels of the tasks handed over
    batch,      \* (settleQuotes alone) the promises of those tasks
    clock,      \* (settleQuotes alone) number of settlements so far
    returned,   \* (settleQuotes alone) the promise settleQuotes returned
    scoreInput, \* (calculateScores alone) the arguments of the call
    scoredRows, \* (calculateScores alone) what calculateScores returned
    orderedRows,\* (calculateScores alone) the rows after the sort
    unitsCall,  \* (unit conversion alone) the arguments of formatTokenDisplay
    displayed,  \* (unit conversion alone) what formatTokenDisplay returned
    parsedBack, \* (unit conversion alone) what parseTokenInput returned
    now,        \* (token caches alone) Math.floor(Date.now() / 1000)
    matchaCache,\* (token caches alone) the module variable matchaCache
    inchCache,  \* (token caches alone) the module variable inchCache
    calls,      \* (token caches alone) the calls of getMatchaToken/getInchToken
    fetches     \* (token caches alone) the token responses received so far

vars == <<req, pc, tokenIn, tokenOut, tokenList, gasPriceRaw, promises,
          started, rejected, baseQuotes, chunkQuotes, pipeline, timer,
          response, tasks, batch, clock, returned, scoreInput, scoredRows,
          orderedRows, unitsCall, displayed, parsedBack, now, matchaCache,
          inchCache, calls, fetches>>

pipeVars == <<req, pc, tokenIn, tokenOut, tokenList, gasPriceRaw, promises,
              started, rejected, baseQuotes, chunkQuotes, pipeline, timer,
              response>>

settleVars == <<tasks, batch, clock, returned>>

unitVars == <<unitsCall, displayed, parsedBack>>

cacheVars == <<now, matchaCache, inchCache, calls, fetches>>

scoreVars == <<scoreInput, scoredRows, orderedRows>>

---------------------------------------------------------------------------
(* Bounds of the model *)

\* number of entries of chunkSizes that the model runs
MaxChunks == 2

\* longest task list handed to settleQuotes when it is checked alone
MaxTasks == 3

\* longest list of quotes handed to calculateScores when it is checked alone
MaxRows == 3

\* greatest base-unit amount converted when the unit conversion is checked
MaxValue == 1100

\* greatest number of token decimals of a conversion
MaxDecimals == 4

\* greatest number of fractional digits displayed
MaxDigits == 2

\* number of calls of getMatchaToken and getInchToken when they run alone
MaxCalls == 3

\* last second of the clock that the token caches are read against
MaxNow == 1

---------------------------------------------------------------------------
(* null, undefined and the ?? operator *)

Null == <<>>

\* undefined: a value distinct from null and from every present value
Undefined == << <<>>, <<>> >>

Some(v) == <<v>>

isNullish(a) == a = Null \/ a = Undefined

\* a ?? b
OrElse(a, b) == IF isNullish(a) THEN b ELSE a[1]

\* the elements of a sequence
Range(s) == {s[i] : i \in DOMAIN s}

\* Array.prototype.map
Map(s, F(_)) == [i \in DOMAIN s |-> F(s[i])]

RECURSIVE SelectIdx(_, _, _)
\* the indices i >= from of s, in order, with s[i] in keep
SelectIdx(s, keep, from) ==
    IF from > Len(s) THEN <<>>
    ELSE IF s[from] \in keep THEN <<from>> \o SelectIdx(s, keep, from + 1)
    ELSE SelectIdx(s, keep, from + 1)

---------------------------------------------------------------------------
(* Strings: String.prototype.toLowerCase *)

UpperChars == <<"A","B","C","D","E","F","G","H","I","J","K","L","M",
                "N","O","P","Q","R","S","T","U","V","W","X","Y","Z">>

LowerChars == <<"a","b","c","d","e","f","g","h","i","j","k","l","m",
                "n","o","p","q","r","s","t","u","v","w","x","y","z">>

toLowerChar(c) ==
    IF \E i \in DOMAIN UpperChars : UpperChars[i] = c
    THEN LowerChars[CHOOSE i \in DOMAIN UpperChars : UpperChars[i] = c]
    ELSE c

toLowerCase(s) == [i \in DOMAIN s |-> toLowerChar(s[i])]

---------------------------------------------------------------------------
(* Numbers: JavaScript numbers and BigNumber values, as exact rationals *)

Abs(a) == IF a < 0 THEN -a ELSE a

RECURSIVE Gcd(_, _)
Gcd(a, b) == IF b = 0 THEN a ELSE Gcd(b, a % b)

\* the rational n/d (d # 0) in lowest terms with a positive denominator
Fin(n, d) ==
    LET g == Gcd(Abs(n), Abs(d))
        s == IF d < 0 THEN -1 ELSE 1
    IN  [k |-> "fin", n |-> s * (n \div g), d |-> s * (d \div g)]

Int2Num(i) == [k |-> "fin", n |-> i, d |-> 1]

NaN == [k |-> "nan", n |-> 0, d |-> 1]

Infinity == [k |-> "inf", n |-> 1, d |-> 1]

NegInfinity == [k |-> "inf", n |-> -1, d |-> 1]

\* Number.isFinite / BigNumber.prototype.isFinite
isFinite(x) == x.k = "fin"

isZero(x) == x.k = "fin" /\ x.n = 0

\* sign of a non-NaN number: -1, 0 or 1
Sign(x) == IF x.n > 0 THEN 1 ELSE IF x.n < 0 THEN -1 ELSE 0

\* x < y on numbers; any comparison with NaN is false
Lt(x, y) ==
    CASE x.k = "nan" \/ y.k = "nan" -> FALSE
      [] x.k = "fin" /\ y.k = "fin" ->
            x.n * (y.d \div Gcd(x.d, y.d)) < y.n * (x.d \div Gcd(x.d, y.d))
      [] x.k = "inf" /\ y.k = "inf" -> x.n < y.n
      [] x.k = "inf" -> x.n < 0
      [] OTHER -> y.n > 0

Gt(x, y) == Lt(y, x)

\* x === y on numbers (NaN differs from itself)
StrictEq(x, y) == x.k # "nan" /\ y.k # "nan" /\ x = y

plus(x, y) ==
    CASE x.k = "nan" \/ y.k = "nan" -> NaN
      [] x.k = "fin" /\ y.k = "fin" ->
            Fin(x.n * (y.d \div Gcd(x.d, y.d)) + y.n * (x.d \div Gcd(x.d, y.d)),
                x.d * (y.d \div Gcd(x.d, y.d)))
      [] x.k = "inf" /\ y.k = "inf" -> IF x.n = y.n THEN x ELSE NaN
      [] x.k = "inf" -> x
      [] OTHER -> y

negated(x) == IF x.k = "nan" THEN NaN ELSE [x EXCEPT !.n = -x.n]

minus(x, y) == plus(x, negated(y))

multipliedBy(x, y) ==
    CASE x.k = "nan" \/ y.k = "nan" -> NaN
      [] x.k = "fin" /\ y.k = "fin" -> Fin(x.n * y.n, x.d * y.d)
      [] Sign(x) * Sign(y) = 0 -> NaN
      [] OTHER -> [k |-> "inf", n |-> Sign(x) * Sign(y), d |-> 1]

dividedBy(x, y) ==
    CASE x.k = "nan" \/ y.k = "nan" -> NaN
      [] x.k = "inf" /\ y.k = "inf" -> NaN
      [] x.k = "inf" -> [k |-> "inf", n |-> x.n * (IF y.n < 0 THEN -1 ELSE 1), d |-> 1]
      [] y.k = "inf" -> Int2Num(0)
      [] y.n = 0 -> IF x.n = 0 THEN NaN
                    ELSE [k |-> "inf", n |-> Sign(x), d |-> 1]
      [] OTHER -> Fin(x.n * y.d, x.d * y.n)

RECURSIVE MaxOf(_)
\* Math.max(...s): -Infinity for no argument, NaN if any argument is NaN
MaxOf(s) ==
    IF s = <<>> THEN NegInfinity
    ELSE LET m == MaxOf(Tail(s))
         IN  CASE Head(s).k = "nan" \/ m.k = "nan" -> NaN
               [] Lt(m, Head(s)) -> Head(s)
               [] OTHER -> m

RECURSIVE MinOf(_)
\* Math.min(...s): +Infinity for no argument, NaN if any argument is NaN
MinOf(s) ==
    IF s = <<>> THEN Infinity
    ELSE LET m == MinOf(Tail(s))
         IN  CASE Head(s).k = "nan" \/ m.k = "nan" -> NaN
               [] Lt(Head(s), m) -> Head(s)
               [] OTHER -> m

Digits == <<"0","1","2","3","4","5","6","7","8","9">>

isDigit(c) == \E i \in DOMAIN Digits : Digits[i] = c

digitValue(c) == (CHOOSE i \in DOMAIN Digits : Digits[i] = c) - 1

RECURSIVE digitsValue(_)
\* the value of a string of decimal digits
digitsValue(s) ==
    IF s = <<>> THEN 0
    ELSE 10 * digitsValue(SubSeq(s, 1, Len(s) - 1)) + digitValue(s[Len(s)])

isDigitString(s) == s # <<>> /\ \A i \in DOMAIN s : isDigit(s[i])

\* Number(value) of a string or null: null and "" give 0, undefined
\* and a string that is not a numeral give NaN
Number(v) ==
    IF v = Undefined THEN NaN
    ELSE IF v = Null \/ v[1] = <<>> THEN Int2Num(0)
    ELSE IF isDigitString(v[1]) THEN Int2Num(digitsValue(v[1]))
    ELSE NaN

\* new BigNumber(string): a string that is not a numeral gives NaN
BigNumber(s) == IF isDigitString(s) THEN Int2Num(digitsValue(s)) ELSE NaN

---------------------------------------------------------------------------
(* Tokens *)

Token(symbol, address, decimals) ==
    [symbol |-> symbol, address |-> address, decimals |-> decimals]

fallbackTokenList ==
    << Token(<<"U","S","D","T">>, "0xdac17f958d2ee523a2206206994597c13d831ec7", 6),
       Token(<<"E","T","H">>, "0xeeeeeeeeeeeeeeeeeeeeeeeeeeeeeeeeeeeeeeee", 18),
       Token(<<"W","E","T","H">>, "0xc02aaa39b223fe8d0a0e5c4f27ead9083c756cc2", 18),
       Token(<<"U","S","D","C">>, "0xA0b86991c6218b36c1d19D4a2e9Eb0cE3606eB48", 6),
       Token(<<"W","B","T","C">>, "0x2260FAC5E5542a773Aa44fBCfeDf7C193bc2C599", 8),
       Token(<<"c","b","B","T","C">>, "0xcbB7C0000aB88B473b1f5aFd9ef808440eed33Bf", 8) >>

\* toNumber(value, fallback) of an optional number
toNumber(value, fallback) ==
    IF isNullish(value) THEN (IF value = Null THEN Int2Num(0) ELSE fallback)
    ELSE IF isFinite(value[1]) THEN value[1] ELSE fallback

\* normalizeTokenList of a parsed array of items, each with optional
\* symbol, address and decimals
normalizeTokenList(raw) ==
    LET keep == {it \in Range(raw) : it.symbol # Undefined /\ it.address # Undefined}
        idx  == SelectIdx(raw, keep, 1)
    IN  [i \in DOMAIN idx |->
            Token(raw[idx[i]].symbol[1], raw[idx[i]].address[1],
                  toNumber(raw[idx[i]].decimals, Int2Num(18)).n)]

\* Array.prototype.find with the predicate of findTokenBySymbol:
\* the first token whose lower-cased symbol equals the lower-cased symbol
findTokenBySymbol(tokens, symbol) ==
    LET hits == {i \in DOMAIN tokens :
                    toLowerCase(tokens[i].symbol) = toLowerCase(symbol)}
    IN  IF hits = {} THEN Undefined
        ELSE Some(tokens[CHOOSE i \in hits : \A j \in hits : i <= j])

fallbackTokenBySymbol(symbol) == findTokenBySymbol(fallbackTokenList, symbol)

\* findTokenBySymbol(tokenList, symbol) ?? fallbackTokenBySymbol(symbol)
resolveToken(list, symbol) ==
    IF isNullish(findTokenBySymbol(list, symbol))
    THEN fallbackTokenBySymbol(symbol)
    ELSE findTokenBySymbol(list, symbol)

---------------------------------------------------------------------------
(* Promises *)

Pending == [state |-> "pending", value |-> Null, reason |-> "", settledAt |-> 0]

Fulfilled(v) ==
    [state |-> "fulfilled", value |-> Some(v), reason |-> "", settledAt |-> 0]

Rejected(r) ==
    [state |-> "rejected", value |-> Null, reason |-> r, settledAt |-> 0]

isSettled(p) == p.state # "pending"

---------------------------------------------------------------------------
(* Quote adapters.  An adapter is a function of what its upstream calls     *)
(* answer: up.auth (the JWT fetch succeeded), up.apiKey (ZEROX_API_KEY is   *)
(* set), up.fetch (Null: the quote request rejected, else the response),    *)
(* up.build (the calldata request succeeded), up.sim (Null: simulate threw, *)
(* else the simulation result).                                            *)

RawQuote(aggregator, amountOut, gasUsed, sources, raw, calldata, sim, failed) ==
    [aggregator |-> aggregator, amountOut |-> amountOut, gasUsed |-> gasUsed,
     sources |-> sources, rawResponse |-> raw,
     calldataResponse |-> calldata, simulationResult |-> sim,
     failed |-> failed]

fallbackQuote(aggregator) ==
    RawQuote(aggregator, Some(<<"0">>), Some(Int2Num(0)), Some(<<>>),
             Undefined, Null, Undefined, Undefined)

\* value ? String(value) : "0"
amountOrZero(value) ==
    IF isNullish(value) \/ value = Some(<<>>) THEN <<"0">> ELSE value[1]

\* the row an adapter returns once its quote, calldata and simulation calls
\* are through; simInit is the value of `simulation` if simulate throws
quoteOf(aggregator, res, simInit, sim) ==
    RawQuote(aggregator,
             Some(amountOrZero(res.amountOut)),
             Some(OrElse(res.gas, Int2Num(0))),
             Some(IF res.usable THEN res.venues ELSE <<>>),
             Some(res),
             Some("calldata"),
             IF sim = Null THEN simInit ELSE sim,
             Undefined)

callBlazingNew(chunkNumber, up) ==
    IF up.fetch = Null THEN Rejected("quote request failed")
    ELSE Fulfilled(quoteOf(
            IF chunkNumber = Null THEN "Blazing Default"
            ELSE "Blazing chunks " \o ToString(chunkNumber[1]),
            up.fetch[1], Null, up.sim))

\* (mutant) a failed calldata build keeps the quote, without calldata
kyberswapKeepsQuote(up) ==
    IF up.fetch = Null THEN Rejected("quote request failed")
    ELSE IF ~up.fetch[1].usable THEN Fulfilled(fallbackQuote("KyberSwap"))
    ELSE Fulfilled(quoteOf("KyberSwap", up.fetch[1], Null, up.sim))

kyberswap(up) ==
    IF up.fetch = Null THEN Rejected("quote request failed")
    ELSE IF ~up.fetch[1].usable THEN Fulfilled(fallbackQuote("KyberSwap"))
    ELSE IF ~up.build
         THEN Rejected("Cannot read properties of null (reading 'data')")
    ELSE Fulfilled(quoteOf("KyberSwap", up.fetch[1], Null, up.sim))

zeroEx(up) ==
    IF ~up.apiKey THEN Fulfilled(fallbackQuote("0x"))
    ELSE IF up.fetch = Null THEN Rejected("quote request failed")
    ELSE IF ~up.fetch[1].usable
         THEN Rejected("Cannot read properties of undefined (reading 'to')")
    ELSE Fulfilled(quoteOf("0x", up.fetch[1], Null, up.sim))

matcha(up) ==
    IF ~up.auth THEN Rejected("quote request failed")
    ELSE IF up.fetch = Null THEN Rejected("quote request failed")
    ELSE IF ~up.fetch[1].usable
         THEN Rejected("Cannot read properties of undefined (reading 'to')")
    ELSE Fulfilled(quoteOf("Matcha", up.fetch[1], Null, up.sim))

inch(up) ==
    IF ~up.auth THEN Rejected("quote request failed")
    ELSE IF up.fetch = Null THEN Rejected("quote request failed")
    ELSE IF ~up.build
         THEN Rejected("Cannot read properties of null (reading 'data')")
    ELSE Fulfilled(quoteOf("1Inch", up.fetch[1], Undefined, up.sim))

---------------------------------------------------------------------------
(* settleQuotes *)

\* (mutant) a rejected task is given the fallback quote
syntheticFallback(label) == fallbackQuote(label)

\* (mutant) the row of a rejected task does not carry the task's label
syntheticUnknown(label) ==
    RawQuote("Unknown", Null, Null, Null, Null, Null, Undefined, Some(TRUE))

\* the row settleQuotes puts in the place of a rejected task
syntheticRow(label) ==
    RawQuote(label, Null, Null, Null, Null, Null, Undefined, Some(TRUE))

\* every promise of ps has settled
allSettled(ps) == \A i \in DOMAIN ps : isSettled(ps[i])

\* index of the promise of ps that settled k-th
settledKth(ps, k) ==
    CHOOSE i \in DOMAIN ps :
        Cardinality({j \in DOMAIN ps :
            \/ ps[j].settledAt < ps[i].settledAt
            \/ ps[j].settledAt = ps[i].settledAt /\ j < i}) = k - 1

\* (mutant) the results are collected in the order the promises settle
AllSettledInCompletionOrder(ps) ==
    IF allSettled(ps)
    THEN Fulfilled([k \in DOMAIN ps |->
                       [status |-> ps[settledKth(ps, k)].state,
                        value |-> ps[settledKth(ps, k)].value]])
    ELSE Pending

\* (mutant) Promise.all in the place of Promise.allSettled: the first
\* rejection rejects the whole batch
PromiseAll(ps) ==
    IF \E i \in DOMAIN ps : ps[i].state = "rejected"
    THEN Rejected(ps[CHOOSE i \in DOMAIN ps : ps[i].state = "rejected"].reason)
    ELSE IF allSettled(ps)
    THEN Fulfilled([i \in DOMAIN ps |->
                       [status |-> ps[i].state, value |-> ps[i].value]])
    ELSE Pending

\* the promise Promise.allSettled(ps) returns: pending until every promise
\* of ps has settled, then fulfilled with one result per promise, in the
\* order of ps; it never rejects
PromiseAllSettled(ps) ==
    IF allSettled(ps)
    THEN Fulfilled([i \in DOMAIN ps |->
                       [status |-> ps[i].state, value |-> ps[i].value]])
    ELSE Pending

\* the promise settleQuotes(tasks) returns, ps being the tasks' promises:
\* the await passes a rejection on, and the map runs on the results
settleQuotes(labels, ps) ==
    LET awaited == PromiseAllSettled(ps)
        results == awaited.value[1]
    IN  IF awaited.state # "fulfilled" THEN awaited
        ELSE Fulfilled(
               [index \in DOMAIN results |->
                   IF results[index].status = "fulfilled"
                   THEN results[index].value[1]
                   ELSE syntheticRow(IF index \in DOMAIN labels
                                     THEN labels[index] ELSE "Unknown")])

---------------------------------------------------------------------------
(* Rounding at the output boundary *)

RECURSIVE Pow10(_)
Pow10(e) == IF e = 0 THEN 1 ELSE 10 * Pow10(e - 1)

\* n/d rounded half up (away from zero) to an integer
roundHalfUp(n, d) ==
    IF n >= 0 THEN (2 * n + d) \div (2 * d) ELSE -((2 * (-n) + d) \div (2 * d))

\* BigNumber.prototype.toFixed(dp) / decimalPlaces(dp, ROUND_HALF_UP) and
\* Number.prototype.toFixed(dp), read back by Number(...): the value rounded
\* to dp decimals; a value that has no more than dp decimals is left as it is
toFixed(x, dp) ==
    IF x.k # "fin" THEN x
    ELSE IF Pow10(IF dp < 9 THEN dp ELSE 9) % x.d = 0 THEN x
    ELSE Fin(roundHalfUp(x.n * Pow10(dp), x.d), Pow10(dp))

\* Naturals beyond the machine integers, for the squares that the rounding
\* of a square root compares: little-endian sequences of limbs below 100.
RECURSIVE natOf(_)
natOf(i) == IF i = 0 THEN <<>> ELSE <<i % 100>> \o natOf(i \div 100)

RECURSIVE natTimesCarry(_, _, _)
natTimesCarry(a, k, carry) ==
    IF a = <<>> THEN natOf(carry)
    ELSE <<(a[1] * k + carry) % 100>>
         \o natTimesCarry(Tail(a), k, (a[1] * k + carry) \div 100)

\* the natural a times the integer k, 0 <= k < 10^7
natTimes(a, k) == IF k = 0 THEN <<>> ELSE natTimesCarry(a, k, 0)

RECURSIVE natLeq(_, _)
natLeq(a, b) ==
    IF Len(a) # Len(b) THEN Len(a) < Len(b)
    ELSE IF a = <<>> THEN TRUE
    ELSE IF a[Len(a)] # b[Len(b)] THEN a[Len(a)] < b[Len(b)]
    ELSE natLeq(SubSeq(a, 1, Len(a) - 1), SubSeq(b, 1, Len(b) - 1))

\* decimals that the score keeps of a square root
RootDecimals == 6

\* m - 1/2 <= 10^RootDecimals * sqrt(n/d), as (2m - 1)^2 * d <= 4 * 10^12 * n
rootAtLeast(n, d, m) ==
    \/ m = 0
    \/ natLeq(natTimes(natTimes(natOf(2 * m - 1), 2 * m - 1), d),
              natTimes(natTimes(natTimes(natOf(n), Pow10(RootDecimals)),
                                Pow10(RootDecimals)), 4))

RECURSIVE rootSearch(_, _, _, _)
\* the greatest m of lo..hi with rootAtLeast(n, d, m), given that lo is one
rootSearch(n, d, lo, hi) ==
    IF lo = hi THEN lo
    ELSE LET mid == (lo + hi + 1) \div 2
         IN  IF rootAtLeast(n, d, mid) THEN rootSearch(n, d, mid, hi)
             ELSE rootSearch(n, d, lo, mid - 1)

\* (mutant) the root is not taken
squaredDistance(x) == x

\* BigNumber.prototype.sqrt of a value of [0, 4]: the code carries the root
\* to 20 decimals, of which the rounding of the score keeps RootDecimals;
\* the model rounds the exact root half up to RootDecimals at once
sqrt(x) ==
    IF x.k # "fin" THEN x
    ELSE IF x.n < 0 THEN NaN
    ELSE IF x.n = 0 THEN x
    ELSE Fin(rootSearch(x.n, x.d, 0, 2 * Pow10(RootDecimals)),
             Pow10(RootDecimals))

---------------------------------------------------------------------------
(* calculateScores *)

\* item.simulationResult?.field
simField(item, field) ==
    IF isNullish(item.simulationResult) THEN Undefined
    ELSE item.simulationResult[1][field]

\* BigNumber(value) of an optional number: NaN for undefined or null
BigNumberOf(value) == IF isNullish(value) THEN NaN ELSE value[1]

\* the predicate of the filter that computes `successful`
hasSimulatedGas(item) ==
    /\ simField(item, "outputTokenAmount") # Undefined
    /\ ~isZero(plus(BigNumberOf(simField(item, "swapTxGasUsed")),
                    OrElse(simField(item, "approveTxGasUsed"), Int2Num(0))))

\* (mutant) the early return gives the score 0
unsimulatedRowScoreZero(item) ==
    [aggregator |-> item.aggregator, amountOut |-> item.amountOut,
     gasUsed |-> item.gasUsed, sources |-> item.sources,
     rawResponse |-> item.rawResponse,
     calldataResponse |-> item.calldataResponse,
     simulationResult |-> item.simulationResult,
     netOutput |-> Int2Num(0), distance |-> Int2Num(0), score |-> Int2Num(0),
     failed |-> Some(TRUE)]

\* the row of the early return: no item has a simulation with gas
unsimulatedRow(item) ==
    [aggregator |-> item.aggregator, amountOut |-> item.amountOut,
     gasUsed |-> item.gasUsed, sources |-> item.sources,
     rawResponse |-> item.rawResponse,
     calldataResponse |-> item.calldataResponse,
     simulationResult |-> item.simulationResult,
     netOutput |-> Int2Num(0), distance |-> Int2Num(0), score |-> Infinity,
     failed |-> Some(TRUE)]

\* (mutant) the gas cost is scaled by the input amount whatever it is
withNetRowUnguarded(item, tokenAmountNumber, gasPriceTokenIn) ==
    LET isFailed == item.amountOut = Null \/ item.gasUsed = Null
        amountOut == IF item.amountOut = Null THEN Int2Num(0)
                     ELSE BigNumber(item.amountOut[1])
        gasUsed == IF item.gasUsed = Null THEN Int2Num(0) ELSE item.gasUsed[1]
        gasCost == multipliedBy(gasUsed, gasPriceTokenIn)
        netOutput == minus(amountOut,
                           dividedBy(multipliedBy(gasCost, amountOut),
                                     tokenAmountNumber))
    IN  [aggregator |-> item.aggregator, amountOut |-> item.amountOut,
         gasUsed |-> item.gasUsed, sources |-> item.sources,
         rawResponse |-> item.rawResponse,
         calldataResponse |-> item.calldataResponse,
         simulationResult |-> item.simulationResult,
         netOutput |-> toFixed(netOutput, 18),
         distance |-> Int2Num(0), score |-> Int2Num(0),
         failed |-> Some(OrElse(item.failed, isFailed))]

\* the element of withNet for item
withNetRow(item, tokenAmountNumber, gasPriceTokenIn) ==
    LET isFailed == item.amountOut = Null \/ item.gasUsed = Null
        amountOut == IF item.amountOut = Null THEN Int2Num(0)
                     ELSE BigNumber(item.amountOut[1])
        gasUsed == IF item.gasUsed = Null THEN Int2Num(0) ELSE item.gasUsed[1]
        gasCost == multipliedBy(gasUsed, gasPriceTokenIn)
        netOutput ==
            IF tokenAmountNumber.k # "nan" /\ ~isZero(tokenAmountNumber)
            THEN minus(amountOut,
                       dividedBy(multipliedBy(gasCost, amountOut),
                                 tokenAmountNumber))
            ELSE amountOut
    IN  [aggregator |-> item.aggregator, amountOut |-> item.amountOut,
         gasUsed |-> item.gasUsed, sources |-> item.sources,
         rawResponse |-> item.rawResponse,
         calldataResponse |-> item.calldataResponse,
         simulationResult |-> item.simulationResult,
         netOutput |-> toFixed(netOutput, 18),
         distance |-> Int2Num(0), score |-> Int2Num(0),
         failed |-> Some(OrElse(item.failed, isFailed))]

\* (mutant) the distance is computed for every netOutputMax that is not 0
withDistanceRowTruthy(item, netOutputMax) ==
    IF item.failed[1] THEN [item EXCEPT !.distance = Int2Num(0)]
    ELSE LET distance ==
                 IF netOutputMax.k # "nan" /\ ~isZero(netOutputMax)
                 THEN multipliedBy(
                          dividedBy(minus(netOutputMax, item.netOutput),
                                    netOutputMax),
                          Int2Num(100))
                 ELSE Int2Num(0)
         IN  [item EXCEPT !.distance =
                 IF isFinite(distance) THEN toFixed(distance, 8)
                 ELSE Int2Num(0)]

\* the element of withDistance for a row of withNet
withDistanceRow(item, netOutputMax) ==
    IF item.failed[1] THEN [item EXCEPT !.distance = Int2Num(0)]
    ELSE LET distance ==
                 IF Gt(netOutputMax, Int2Num(0))
                 THEN multipliedBy(
                          dividedBy(minus(netOutputMax, item.netOutput),
                                    netOutputMax),
                          Int2Num(100))
                 ELSE Int2Num(0)
         IN  [item EXCEPT !.distance =
                 IF isFinite(distance) THEN toFixed(distance, 8)
                 ELSE Int2Num(0)]

\* !!simulation?.isSuccessful
isSuccessful(item) ==
    ~isNullish(item.simulationResult) /\ item.simulationResult[1].isSuccessful

\* the predicate of the filter that computes successfulSimulations
isSuccessfulSimulation(item) ==
    /\ isSuccessful(item)
    /\ isFinite(Number(simField(item, "outputTokenAmount")))

\* simulation.approveTxGasUsed + simulation.swapTxGasUsed on numbers
simulationGas(item) ==
    plus(BigNumberOf(simField(item, "approveTxGasUsed")),
         BigNumberOf(simField(item, "swapTxGasUsed")))

\* new BigNumber(simulation.outputTokenAmount ?? 0)
simulationOutput(item) ==
    IF simField(item, "outputTokenAmount") = Undefined THEN Int2Num(0)
    ELSE BigNumber(simField(item, "outputTokenAmount")[1])

\* BigNumber.maximum(0, BigNumber.minimum(1, normalized))
bounded(normalized) ==
    IF normalized.k = "nan" THEN NaN
    ELSE IF Gt(normalized, Int2Num(1)) THEN Int2Num(1)
    ELSE IF Lt(normalized, Int2Num(0)) THEN Int2Num(0)
    ELSE normalized

\* the score of a row of withDistance when some simulation succeeded
scoreOf(item, outMin, outMax, gasMin, gasMax) ==
    IF ~isSuccessful(item) THEN Infinity
    ELSE IF ~isFinite(simulationOutput(item)) \/ ~isFinite(simulationGas(item))
    THEN Infinity
    ELSE LET outputNorm ==
                 IF StrictEq(outMax, outMin) THEN Int2Num(1)
                 ELSE dividedBy(minus(simulationOutput(item), outMin),
                                minus(outMax, outMin))
             gasNorm ==
                 IF StrictEq(gasMax, gasMin) THEN Int2Num(0)
                 ELSE dividedBy(minus(simulationGas(item), gasMin),
                                minus(gasMax, gasMin))
             outputDelta == minus(outputNorm, Int2Num(1))
             gasDelta == minus(gasNorm, Int2Num(0))
             \* euclidean / sqrtTwo, as the root of the halved sum of squares
             normalized ==
                 sqrt(dividedBy(plus(multipliedBy(outputDelta, outputDelta),
                                     multipliedBy(gasDelta, gasDelta)),
                                Int2Num(2)))
         IN  IF isFinite(bounded(normalized))
             THEN toFixed(bounded(normalized), 6)
             ELSE Infinity

calculateScores(raw, amountIn, gasPriceTokenIn) ==
    IF Len(raw) = 0 THEN <<>>
    ELSE IF \A i \in DOMAIN raw : ~hasSimulatedGas(raw[i])
    THEN [i \in DOMAIN raw |-> unsimulatedRow(raw[i])]
    ELSE
      LET tokenAmountNumber == Number(Some(amountIn))
          withNet == [i \in DOMAIN raw |->
                        withNetRow(raw[i], tokenAmountNumber, gasPriceTokenIn)]
          netOutputMax == MaxOf([i \in DOMAIN withNet |-> withNet[i].netOutput])
          withDistance == [i \in DOMAIN withNet |->
                             withDistanceRow(withNet[i], netOutputMax)]
          sims == SelectIdx(withDistance,
                            {r \in Range(withDistance) : isSuccessfulSimulation(r)},
                            1)
          outs == [j \in DOMAIN sims |->
                     Number(simField(withDistance[sims[j]], "outputTokenAmount"))]
          gases == [j \in DOMAIN sims |-> simulationGas(withDistance[sims[j]])]
      IN  IF sims = <<>>
          THEN [i \in DOMAIN withDistance |->
                   [withDistance[i] EXCEPT !.score = Infinity]]
          ELSE [i \in DOMAIN withDistance |->
                   [withDistance[i] EXCEPT !.score =
                       scoreOf(withDistance[i], MinOf(outs), MaxOf(outs),
                               MinOf(gases), MaxOf(gases))]]

---------------------------------------------------------------------------
(* Ranking: Array.prototype.sort with the comparators of getQuoteComparison *)

\* (mutant) the score comparator is written the other way round
compareScoreDescending(order, a, b) ==
    CASE order = "score" -> minus(b.score, a.score)
      [] order = "net" -> minus(b.netOutput, a.netOutput)
      [] OTHER -> minus(Number(b.amountOut), Number(a.amountOut))

\* the comparator of `order`, applied to rows a and b
compare(order, a, b) ==
    CASE order = "score" -> minus(a.score, b.score)
      [] order = "net" -> minus(b.netOutput, a.netOutput)
      [] OTHER -> minus(Number(b.amountOut), Number(a.amountOut))

\* a comparator result v counts as positive; NaN counts as 0
isPositive(v) == v.k # "nan" /\ v.n > 0

RECURSIVE insert(_, _, _)
\* x inserted into the sorted list s: before the trailing elements that
\* compare greater than x
insert(order, s, x) ==
    IF s # <<>> /\ isPositive(compare(order, s[Len(s)], x))
    THEN Append(insert(order, SubSeq(s, 1, Len(s) - 1), x), s[Len(s)])
    ELSE Append(s, x)

RECURSIVE sorted(_, _)
\* [...rows].sort(comparator of order): a stable insertion sort
sorted(order, rows) ==
    IF rows = <<>> THEN <<>>
    ELSE insert(order, sorted(order, SubSeq(rows, 1, Len(rows) - 1)),
                rows[Len(rows)])

\* (mutant) the rows that failed are left out of the ranking
rankUnfailed(order, scored) ==
    sorted(order, SelectSeq(scored, LAMBDA row : row.failed # Some(TRUE)))

\* the three conditional sorts of getQuoteComparison
rank(order, scored) ==
    IF order \in {"score", "net", "output"} THEN sorted(order, scored)
    ELSE scored

---------------------------------------------------------------------------
(* getQuoteComparison *)

toOrder(value) ==
    IF value \in {Some("score"), Some("net"), Some("output")} THEN value[1]
    ELSE "net"

tokenInSymbol(data) == OrElse(data.tokenIn, <<"W","E","T","H">>)

tokenOutSymbol(data) == OrElse(data.tokenOut, <<"W","B","T","C">>)

tokenAmount(data) ==
    OrElse(data.tokenAmount,
           <<"1","0","0","0","0","0","0","0","0","0",
             "0","0","0","0","0","0","0","0","0">>)

chunkSizes == <<1, 5, 10, 15, 20, 30, 50, 75, 100, 125, 150, 200>>

\* the chunk sizes the model runs: the first MaxChunks entries of chunkSizes
modelChunkSizes == SubSeq(chunkSizes, 1, MaxChunks)

baseLabels == <<"KyberSwap", "1Inch", "Matcha", "0x">>

chunkLabels ==
    [i \in DOMAIN modelChunkSizes |->
        "Blazing chunks " \o ToString(modelChunkSizes[i])]

defaultLabels == <<"Blazing Default">>

timeoutMessage == "getQuoteComparison timed out after 100 seconds"

\* (mutant) the response carries the normalised symbols, not the request's
successResponseLowered(data, tokenOutDecimals, gasPrice, ordered) ==
    [tokenIn |-> toLowerCase(tokenInSymbol(data)),
     tokenOut |-> toLowerCase(tokenOutSymbol(data)),
     tokenAmount |-> tokenAmount(data), tokenOutDecimals |-> tokenOutDecimals,
     gasPriceTokenIn |-> gasPrice, order |-> toOrder(data.order),
     results |-> ordered, error |-> Null, status |-> "success"]

\* the object the pipeline returns
successResponse(data, tokenOutDecimals, gasPrice, ordered) ==
    [tokenIn |-> tokenInSymbol(data), tokenOut |-> tokenOutSymbol(data),
     tokenAmount |-> tokenAmount(data), tokenOutDecimals |-> tokenOutDecimals,
     gasPriceTokenIn |-> gasPrice, order |-> toOrder(data.order),
     results |-> ordered, error |-> Null, status |-> "success"]

\* (mutant) the catch block reports String(error), not error.message
errorResponseString(data, message) ==
    [tokenIn |-> tokenInSymbol(data), tokenOut |-> tokenOutSymbol(data),
     tokenAmount |-> tokenAmount(data), tokenOutDecimals |-> 0,
     gasPriceTokenIn |-> Some(<<"0">>), order |-> toOrder(data.order),
     results |-> <<>>, error |-> Some("Error: " \o message),
     status |-> "error"]

\* the object the catch block returns
errorResponse(data, message) ==
    [tokenIn |-> tokenInSymbol(data), tokenOut |-> tokenOutSymbol(data),
     tokenAmount |-> tokenAmount(data), tokenOutDecimals |-> 0,
     gasPriceTokenIn |-> Some(<<"0">>), order |-> toOrder(data.order),
     results |-> <<>>, error |-> Some(message), status |-> "error"]

\* (mutant) the handler awaits the pipeline alone: the timer decides nothing
awaitPipelineOnly(data, current, p) ==
    IF current # Null \/ p = Rejected(timeoutMessage) THEN current
    ELSE IF p.state = "fulfilled" THEN p.value
    ELSE Some(errorResponse(data, p.reason))

\* (mutant) every settlement decides the response anew: the last one wins
lastSettles(data, current, p) ==
    IF p.state = "fulfilled" THEN p.value
    ELSE Some(errorResponse(data, p.reason))

\* what the awaited Promise.race gives the handler when promise p settles:
\* the first settlement decides, a later one changes nothing
raceSettles(data, current, p) ==
    IF current # Null THEN current
    ELSE IF p.state = "fulfilled" THEN p.value
    ELSE Some(errorResponse(data, p.reason))

---------------------------------------------------------------------------
(* The environment: requests and what the collaborators may answer *)

Request(tIn, tOut, amount, order) ==
    [tokenIn |-> tIn, tokenOut |-> tOut, tokenAmount |-> amount,
     order |-> order, disablePrice |-> Undefined]

Requests ==
    { Request(Undefined, Undefined, Some(<<"a","b","c">>), Undefined),
      Request(Some(<<"w","e","t","h">>), Some(<<"c","b","b","t","c">>),
              Some(<<"1","0","0","0">>), Some("score")),
      Request(Some(<<"U","s","d","c">>), Some(<<"W","E","T","H">>),
              Some(<<"0">>), Some("output")),
      Request(Some(<<"F","O","O">>), Some(<<"W","B","T","C">>),
              Undefined, Some("bogus")),
      Request(Some(<<"W","E","T","H">>), Some(<<"B","A","R">>),
              Some(<<"1","0","0","0">>), Some("net")) }

CatalogItem(symbol, address, decimals) ==
    [symbol |-> symbol, address |-> address, decimals |-> decimals]

\* what reading and parsing token-list.json may give: Null when readFile or
\* JSON.parse throws, else the parsed list
CatalogOutcomes ==
    { Null,
      Some(<< CatalogItem(Some(<<"B","A","R">>), Undefined, Undefined),
              CatalogItem(Some(<<"W","e","t","h">>), Some("0xcatalog"),
                          Undefined) >>) }

\* what callBlazingTokenPrice may give: Null when the request rejects, else
\* res.gas_price_token_in
PriceOutcomes == { Null, Some(Some(<<"2">>)) }

QuoteResponse(amountOut, gas, venues) ==
    [usable |-> TRUE, amountOut |-> amountOut, gas |-> gas, venues |-> venues]

\* a response that carries none of the fields the adapter reads
EmptyResponse ==
    [usable |-> FALSE, amountOut |-> Undefined, gas |-> Undefined,
     venues |-> <<>>]

SimulationResult(output, approveGas, swapGas, ok) ==
    [outputTokenAmount |-> output, approveTxGasUsed |-> approveGas,
     swapTxGasUsed |-> swapGas, isSuccessful |-> ok]

GoodResponse ==
    QuoteResponse(Some(<<"9","0","0">>), Some(Int2Num(50)), <<"uniswap">>)

GoodSimulation ==
    SimulationResult(Some(<<"8","9","0">>), Some(Int2Num(10)),
                     Some(Int2Num(40)), TRUE)

Upstream(auth, apiKey, fetch, build, sim) ==
    [auth |-> auth, apiKey |-> apiKey, fetch |-> fetch, build |-> build,
     sim |-> sim]

\* the answers of the upstream calls of one call of a third-party adapter
BaseOutcomes ==
    { Upstream(TRUE, TRUE, Null, TRUE, Null),
      Upstream(TRUE, TRUE, Some(EmptyResponse), TRUE, Null),
      Upstream(TRUE, TRUE, Some(GoodResponse), FALSE, Null),
      Upstream(TRUE, TRUE, Some(GoodResponse), TRUE, Null),
      Upstream(TRUE, TRUE, Some(GoodResponse), TRUE, Some(GoodSimulation)),
      Upstream(FALSE, FALSE, Some(GoodResponse), TRUE, Some(GoodSimulation)) }

\* the answers of the upstream calls of one call of callBlazingNew
BlazingOutcomes ==
    { Upstream(TRUE, TRUE, Null, TRUE, Null),
      Upstream(TRUE, TRUE, Some(GoodResponse), TRUE, Null),
      Upstream(TRUE, TRUE, Some(GoodResponse), TRUE, Some(GoodSimulation)) }

UpstreamOutcomes(at) == IF at = "base" THEN BaseOutcomes ELSE BlazingOutcomes

---------------------------------------------------------------------------
(* The pipeline raced against the timer *)

\* the labels of the batch the pipeline is awaiting
batchLabels(at) ==
    CASE at = "base" -> baseLabels
      [] at = "chunks" -> chunkLabels
      [] OTHER -> defaultLabels

\* the promise of task i of the batch, given its upstream answers
adapterCall(at, i, up) ==
    CASE at = "base" /\ i = 1 -> kyberswap(up)
      [] at = "base" /\ i = 2 -> inch(up)
      [] at = "base" /\ i = 3 -> matcha(up)
      [] at = "base" /\ i = 4 -> zeroEx(up)
      [] at = "chunks" -> callBlazingNew(Some(modelChunkSizes[i]), up)
      [] OTHER -> callBlazingNew(Null, up)

\* (mutant) only the first call of a batch is issued
firstCallOnly(labels) == [i \in DOMAIN labels \cap {1} |-> Pending]

\* the promises of a batch whose calls have just been issued
pendingBatch(labels) == [i \in DOMAIN labels |-> Pending]

\* the gas price ratio that calculateScores is called with
gasPriceTokenIn(price) ==
    IF isNullish(price) THEN NaN ELSE BigNumber(price[1])

\* the rest of the pipeline once the last batch is collected
pipelineResult(data, tOut, price, raw) ==
    successResponse(data, tOut.decimals, price,
        rank(toOrder(data.order),
             calculateScores(raw, tokenAmount(data), gasPriceTokenIn(price))))

Init ==
    /\ req = Null
    /\ pc = "idle"
    /\ tokenIn = Null
    /\ tokenOut = Null
    /\ tokenList = Null
    /\ gasPriceRaw = Null
    /\ promises = <<>>
    /\ started = {}
    /\ rejected = {}
    /\ baseQuotes = <<>>
    /\ chunkQuotes = <<>>
    /\ pipeline = Pending
    /\ timer = "unset"
    /\ response = Null
    /\ tasks = Null
    /\ batch = <<>>
    /\ clock = 0
    /\ returned = Pending
    /\ scoreInput = Null
    /\ scoredRows = Null
    /\ orderedRows = Null
    /\ unitsCall = Null
    /\ displayed = Null
    /\ parsedBack = Null
    /\ now = 0
    /\ matchaCache = Null
    /\ inchCache = Null
    /\ calls = <<>>
    /\ fetches = {}

\* (mutant) the handler runs the pipeline without racing it against a timer
CallWithoutTimer(data) ==
    /\ pc = "idle"
    /\ req' = Some(data)
    /\ pc' = "tokenList"
    /\ UNCHANGED <<tokenIn, tokenOut, tokenList, gasPriceRaw, promises,
                   started, rejected, baseQuotes, chunkQuotes, pipeline,
                   response, timer>>
    /\ UNCHANGED settleVars
    /\ UNCHANGED scoreVars
    /\ UNCHANGED unitVars
    /\ UNCHANGED cacheVars

\* the handler is called: it arms the timer and the pipeline runs up to its
\* first await, of getTokenListInternal
Call(data) ==
    /\ pc = "idle"
    /\ req' = Some(data)
    /\ pc' = "tokenList"
    /\ timer' = "armed"
    /\ UNCHANGED <<tokenIn, tokenOut, tokenList, gasPriceRaw, promises,
                   started, rejected, baseQuotes, chunkQuotes, pipeline,
                   response>>
    /\ UNCHANGED settleVars
    /\ UNCHANGED scoreVars
    /\ UNCHANGED unitVars
    /\ UNCHANGED cacheVars

\* the pipeline promise rejects with `reason`
PipelineThrows(reason) ==
    /\ pc' = "failed"
    /\ pipeline' = Rejected(reason)
    /\ response' = raceSettles(req[1], response, Rejected(reason))

\* getTokenListInternal settles; the pipeline resolves both tokens and issues
\* callBlazingTokenPrice
TokenListSettles(outcome) ==
    /\ pc = "tokenList"
    /\ IF outcome = Null
       THEN /\ PipelineThrows("ENOENT: no such file or directory")
            /\ UNCHANGED <<tokenIn, tokenOut, tokenList>>
       ELSE LET list == normalizeTokenList(outcome[1])
                tIn == resolveToken(list, tokenInSymbol(req[1]))
                tOut == resolveToken(list, tokenOutSymbol(req[1]))
            IN  /\ tokenList' = Some(list)
                /\ IF isNullish(tIn) \/ isNullish(tOut)
                   THEN /\ PipelineThrows("Unsupported token symbol")
                        /\ UNCHANGED <<tokenIn, tokenOut>>
                   ELSE /\ tokenIn' = tIn
                        /\ tokenOut' = tOut
                        /\ pc' = "price"
                        /\ UNCHANGED <<pipeline, response>>
    /\ UNCHANGED <<req, gasPriceRaw, promises, started, rejected, baseQuotes,
                   chunkQuotes, timer>>
    /\ UNCHANGED settleVars
    /\ UNCHANGED scoreVars
    /\ UNCHANGED unitVars
    /\ UNCHANGED cacheVars

\* the adapter calls of a batch are issued: one pending promise per label
issue(labels) ==
    /\ promises' = pendingBatch(labels)
    /\ started' = started \cup {labels[i] : i \in DOMAIN pendingBatch(labels)}

\* (mutant) the base adapter calls are issued whatever the price call did
PriceSettlesAfterIssue(outcome) ==
    /\ pc = "price"
    /\ issue(baseLabels)
    /\ IF outcome = Null
       THEN /\ PipelineThrows("reference price request failed")
            /\ UNCHANGED gasPriceRaw
       ELSE /\ gasPriceRaw' = outcome[1]
            /\ pc' = "base"
            /\ UNCHANGED <<pipeline, response>>
    /\ UNCHANGED <<req, tokenIn, tokenOut, tokenList, rejected, baseQuotes,
                   chunkQuotes, timer>>
    /\ UNCHANGED <<settleVars, scoreVars, unitVars, cacheVars>>

\* callBlazingTokenPrice settles; the pipeline issues the four base adapter
\* calls and awaits their settleQuotes
PriceSettles(outcome) ==
    /\ pc = "price"
    /\ IF outcome = Null
       THEN /\ PipelineThrows("reference price request failed")
            /\ UNCHANGED <<gasPriceRaw, promises, started>>
       ELSE /\ gasPriceRaw' = outcome[1]
            /\ issue(baseLabels)
            /\ pc' = "base"
            /\ UNCHANGED <<pipeline, response>>
    /\ UNCHANGED <<req, tokenIn, tokenOut, tokenList, rejected, baseQuotes,
                   chunkQuotes, timer>>
    /\ UNCHANGED settleVars
    /\ UNCHANGED scoreVars
    /\ UNCHANGED unitVars
    /\ UNCHANGED cacheVars

\* adapter call i of the awaited batch settles; when that settles the
\* promise of settleQuotes, the pipeline runs on to its next await or to
\* its end
AdapterSettles(i, up) ==
    /\ pc \in {"base", "chunks", "default"}
    /\ i \in DOMAIN promises
    /\ ~isSettled(promises[i])
    /\ rejected' = IF adapterCall(pc, i, up).state = "rejected"
                   THEN rejected \cup {batchLabels(pc)[i]} ELSE rejected
    /\ LET ps == [promises EXCEPT ![i] = adapterCall(pc, i, up)]
           quotes == settleQuotes(batchLabels(pc), ps)
       IN  CASE quotes.state = "pending" ->
                  /\ promises' = ps
                  /\ UNCHANGED <<pc, started, baseQuotes, chunkQuotes,
                                 pipeline, response>>
             [] quotes.state = "rejected" ->
                  /\ promises' = ps
                  /\ PipelineThrows(quotes.reason)
                  /\ UNCHANGED <<started, baseQuotes, chunkQuotes>>
             [] quotes.state = "fulfilled" /\ pc = "base" ->
                  /\ baseQuotes' = quotes.value[1]
                  /\ issue(chunkLabels)
                  /\ pc' = "chunks"
                  /\ UNCHANGED <<chunkQuotes, pipeline, response>>
             [] quotes.state = "fulfilled" /\ pc = "chunks" ->
                  /\ chunkQuotes' = quotes.value[1]
                  /\ issue(defaultLabels)
                  /\ pc' = "default"
                  /\ UNCHANGED <<baseQuotes, pipeline, response>>
             [] OTHER ->
                  LET result == pipelineResult(req[1], tokenOut[1], gasPriceRaw,
                                    baseQuotes \o chunkQuotes \o quotes.value[1])
                  IN  /\ promises' = ps
                      /\ pc' = "done"
                      /\ pipeline' = Fulfilled(result)
                      /\ response' = raceSettles(req[1], response,
                                                 Fulfilled(result))
                      /\ UNCHANGED <<started, baseQuotes, chunkQuotes>>
    /\ UNCHANGED <<req, tokenIn, tokenOut, tokenList, gasPriceRaw, timer>>
    /\ UNCHANGED settleVars
    /\ UNCHANGED scoreVars
    /\ UNCHANGED unitVars
    /\ UNCHANGED cacheVars

\* the setTimeout callback runs: the timer promise rejects
TimerFires ==
    /\ timer = "armed"
    /\ timer' = "fired"
    /\ response' = raceSettles(req[1], response, Rejected(timeoutMessage))
    /\ UNCHANGED <<req, pc, tokenIn, tokenOut, tokenList, gasPriceRaw,
                   promises, started, rejected, baseQuotes, chunkQuotes,
                   pipeline>>
    /\ UNCHANGED settleVars
    /\ UNCHANGED scoreVars
    /\ UNCHANGED unitVars
    /\ UNCHANGED cacheVars

Next ==
    \/ \E data \in Requests : Call(data)
    \/ \E outcome \in CatalogOutcomes : TokenListSettles(outcome)
    \/ \E outcome \in PriceOutcomes : PriceSettles(outcome)
    \/ \E i \in 1..Len(promises), up \in UpstreamOutcomes(pc) :
          AdapterSettles(i, up)
    \/ TimerFires

Spec == Init /\ [][Next]_vars

\* the timer of setTimeout fires once armed; nothing obliges a collaborator
\* to answer
SpecLive == Spec /\ WF_vars(TimerFires)

---------------------------------------------------------------------------
(* settleQuotes alone: any list of labelled tasks, settling in any order *)

TaskLabels == {"KyberSwap", "0x"}

TaskLists == UNION {[1..n -> TaskLabels] : n \in 0..MaxTasks}

\* how the promise of a task may settle
TaskOutcomes ==
    { Rejected("quote request failed"),
      Fulfilled(fallbackQuote("0x")),
      Fulfilled(quoteOf("KyberSwap", GoodResponse, Null, Some(GoodSimulation))) }

\* settleQuotes(tasks) is called with pending promises
SettleCall(labels) ==
    /\ tasks = Null
    /\ tasks' = Some(labels)
    /\ batch' = pendingBatch(labels)
    /\ returned' = settleQuotes(labels, pendingBatch(labels))
    /\ UNCHANGED clock
    /\ UNCHANGED pipeVars
    /\ UNCHANGED scoreVars
    /\ UNCHANGED unitVars
    /\ UNCHANGED cacheVars

\* the promise of task i settles, and with it the promise of settleQuotes
\* if it was still pending
TaskSettles(i, outcome) ==
    /\ tasks # Null
    /\ i \in DOMAIN batch
    /\ ~isSettled(batch[i])
    /\ clock' = clock + 1
    /\ batch' = [batch EXCEPT ![i] = [outcome EXCEPT !.settledAt = clock + 1]]
    /\ returned' = IF isSettled(returned) THEN returned
                   ELSE settleQuotes(tasks[1], batch')
    /\ UNCHANGED tasks
    /\ UNCHANGED pipeVars
    /\ UNCHANGED scoreVars
    /\ UNCHANGED unitVars
    /\ UNCHANGED cacheVars

NextSettle ==
    \/ \E labels \in TaskLists : SettleCall(labels)
    \/ \E i \in 1..Len(batch), outcome \in TaskOutcomes : TaskSettles(i, outcome)

SpecSettle == Init /\ [][NextSettle]_vars

---------------------------------------------------------------------------
(* calculateScores and the sort alone: any list of quotes of settleQuotes *)

\* the quote an adapter returns for an upstream amount and gas, with the
\* simulation it got (Null: simulate threw)
ScoreQuote(aggregator, amountOut, gas, sim) ==
    quoteOf(aggregator, QuoteResponse(Some(amountOut), Some(gas), <<"uniswap">>),
            Null, sim)

\* the rows calculateScores may be handed: the row of a rejected adapter,
\* quotes without a simulation (one of them costing more gas than it
\* returns, one with a gas that is not a number), quotes with a successful
\* simulation and a quote, costing more gas than it returns, whose
\* simulation is marked unsuccessful
ScoreRows ==
    { syntheticRow("KyberSwap"),
      ScoreQuote("1Inch", <<"9","0","0">>, Int2Num(50), Null),
      ScoreQuote("Matcha", <<"9","0","0">>, Int2Num(950), Null),
      ScoreQuote("0x", <<"9","0","0">>, NaN, Null),
      ScoreQuote("Blazing Default", <<"9","0","0">>, Int2Num(50),
          Some(SimulationResult(Some(<<"8","9","0">>), Some(Int2Num(10)),
                                Some(Int2Num(40)), TRUE))),
      ScoreQuote("Blazing chunks 1", <<"4","5","0">>, Int2Num(50),
          Some(SimulationResult(Some(<<"8","8","3">>), Some(Int2Num(10)),
                                Some(Int2Num(47)), TRUE))),
      ScoreQuote("Blazing chunks 5", <<"4","5","0">>, Int2Num(50),
          Some(SimulationResult(Some(<<"8","8","9">>), Some(Int2Num(10)),
                                Some(Int2Num(41)), TRUE))),
      ScoreQuote("Blazing chunks 10", <<"9","0","0">>, Int2Num(50),
          Some(SimulationResult(Some(<<"8","8","3">>), Some(Int2Num(10)),
                                Some(Int2Num(40)), TRUE))),
      ScoreQuote("Blazing chunks 15", <<"4","5","0">>, Int2Num(950),
          Some(SimulationResult(Some(<<"8","8","0">>), Some(Int2Num(10)),
                                Some(Int2Num(40)), FALSE))) }

ScoreLists == UNION {[1..n -> ScoreRows] : n \in 0..MaxRows}

\* the input amount and the gas price ratio of a call: BigNumber(undefined)
\* is NaN when the price response has no gas_price_token_in
ScoreContexts ==
    { [amountIn |-> <<"1","0","0","0">>, gasPriceTokenIn |-> Int2Num(2)],
      [amountIn |-> <<"1","0","0","0">>, gasPriceTokenIn |-> NaN],
      [amountIn |-> <<"0">>, gasPriceTokenIn |-> Int2Num(2)] }

\* calculateScores(raw, amountIn, gasPriceTokenIn) is called
ScoreCall(raw, context) ==
    /\ scoreInput = Null
    /\ scoreInput' = Some([raw |-> raw, amountIn |-> context.amountIn,
                           gasPriceTokenIn |-> context.gasPriceTokenIn])
    /\ scoredRows' = Some(calculateScores(raw, context.amountIn,
                                          context.gasPriceTokenIn))
    /\ UNCHANGED orderedRows
    /\ UNCHANGED pipeVars
    /\ UNCHANGED settleVars
    /\ UNCHANGED unitVars
    /\ UNCHANGED cacheVars

\* the scored rows are copied and sorted by the order of the request
RankCall(order) ==
    /\ scoredRows # Null
    /\ orderedRows = Null
    /\ orderedRows' = Some([order |-> order, rows |-> rank(order, scoredRows[1])])
    /\ UNCHANGED <<scoreInput, scoredRows>>
    /\ UNCHANGED pipeVars
    /\ UNCHANGED settleVars
    /\ UNCHANGED unitVars
    /\ UNCHANGED cacheVars

NextScore ==
    \/ \E raw \in ScoreLists, context \in ScoreContexts : ScoreCall(raw, context)
    \/ \E order \in {"score", "net", "output"} : RankCall(order)

SpecScore == Init /\ [][NextScore]_vars

---------------------------------------------------------------------------
(* The unit conversions of the page, run alone: formatTokenDisplay and     *)
(* parseTokenInput, with formatUnits and parseUnits of the viem library as  *)
(* that library defines them, on non-negative amounts                       *)

RECURSIVE toDecimalString(_)
\* BigInt.prototype.toString() of a non-negative integer
toDecimalString(n) ==
    IF n < 10 THEN <<Digits[n + 1]>>
    ELSE Append(toDecimalString(n \div 10), Digits[(n % 10) + 1])

RECURSIVE padStart(_, _)
\* String.prototype.padStart(n, "0")
padStart(s, n) == IF Len(s) >= n THEN s ELSE padStart(<<"0">> \o s, n)

RECURSIVE padEnd(_, _)
\* String.prototype.padEnd(n, "0")
padEnd(s, n) == IF Len(s) >= n THEN s ELSE padEnd(Append(s, "0"), n)

RECURSIVE trimTrailingZeros(_)
\* replace(/(0+)$/, "")
trimTrailingZeros(s) ==
    IF s # <<>> /\ s[Len(s)] = "0"
    THEN trimTrailingZeros(SubSeq(s, 1, Len(s) - 1))
    ELSE s

\* String.prototype.slice(from, to) with 0 <= from
slice(s, from, to) ==
    SubSeq(s, from + 1, IF to > Len(s) THEN Len(s) ELSE to)

RECURSIVE split(_)
\* String.prototype.split(".")
split(s) ==
    IF \A i \in DOMAIN s : s[i] # "." THEN <<s>>
    ELSE LET k == CHOOSE i \in DOMAIN s :
                      s[i] = "." /\ \A j \in 1..(i - 1) : s[j] # "."
         IN  <<SubSeq(s, 1, k - 1)>> \o split(SubSeq(s, k + 1, Len(s)))

RECURSIVE trim(_)
\* String.prototype.trim() for blanks
trim(s) ==
    IF s # <<>> /\ s[1] = " " THEN trim(Tail(s))
    ELSE IF s # <<>> /\ s[Len(s)] = " " THEN trim(SubSeq(s, 1, Len(s) - 1))
    ELSE s

\* BigInt(string) does not throw: a string of digits, or the empty string
isBigIntString(s) == \A i \in DOMAIN s : isDigit(s[i])

\* formatUnits(value, decimals) of viem
formatUnits(value, decimals) ==
    LET display == padStart(toDecimalString(value), decimals)
        integer == slice(display, 0, Len(display) - decimals)
        fraction == trimTrailingZeros(
                        slice(display, Len(display) - decimals, Len(display)))
    IN  (IF integer = <<>> THEN <<"0">> ELSE integer)
            \o (IF fraction = <<>> THEN <<>> ELSE <<".">> \o fraction)

\* (mutant) the last `digits` fractional digits are kept, not the first
trimDecimalsLast(value, digits) ==
    LET parts == split(value)
    IN  IF Len(parts) < 2 \/ parts[2] = <<>> THEN value
        ELSE parts[1] \o <<".">>
                 \o SubSeq(parts[2],
                           IF Len(parts[2]) > digits
                           THEN Len(parts[2]) - digits + 1 ELSE 1,
                           Len(parts[2]))

\* trimDecimals(value, digits)
trimDecimals(value, digits) ==
    LET parts == split(value)
    IN  IF Len(parts) < 2 \/ parts[2] = <<>> THEN value
        ELSE parts[1] \o <<".">> \o slice(parts[2], 0, digits)

\* formatTokenDisplay(value, decimals, digits)
formatTokenDisplay(value, decimals, digits) ==
    IF isBigIntString(value)
    THEN trimDecimals(formatUnits(digitsValue(value), decimals), digits)
    ELSE value

\* the half-up rounding Math.round(Number(unit.right)) of parseUnits
roundedUnit(unit, right) ==
    digitValue(unit) + (IF right # <<>> /\ digitValue(right[1]) >= 5 THEN 1 ELSE 0)

\* parseUnits(value, decimals) of viem: Null when it throws
parseUnits(value, decimals) ==
    LET parts == split(value)
        integer == parts[1]
        fraction == trimTrailingZeros(IF Len(parts) = 1 THEN <<"0">>
                                      ELSE parts[2])
    IN  IF Len(parts) > 2 \/ \E i \in DOMAIN parts : ~isBigIntString(parts[i])
        THEN Null
        ELSE IF decimals = 0
        THEN Some(digitsValue(integer) + roundedUnit("0", fraction))
        ELSE IF Len(fraction) > decimals
        THEN LET left == slice(fraction, 0, decimals - 1)
                 rounded == roundedUnit(fraction[decimals],
                                        slice(fraction, decimals, Len(fraction)))
                 carried ==
                     IF rounded > 9
                     THEN padStart(Append(toDecimalString(digitsValue(left) + 1),
                                          "0"), Len(left) + 1)
                     ELSE Append(left, Digits[rounded + 1])
                 overflow == Len(carried) > decimals
             IN  Some(digitsValue(
                     (IF overflow THEN toDecimalString(digitsValue(integer) + 1)
                      ELSE integer)
                     \o slice(IF overflow THEN Tail(carried) ELSE carried,
                              0, decimals)))
        ELSE Some(digitsValue(integer \o padEnd(fraction, decimals)))

\* parseTokenInput(value, decimals): null, or the base-unit integer string
parseTokenInput(value, decimals) ==
    IF trim(value) = <<>> \/ parseUnits(trim(value), decimals) = Null THEN Null
    ELSE Some(toDecimalString(parseUnits(trim(value), decimals)[1]))

\* the base-unit integer strings handed to formatTokenDisplay
UnitValues == {toDecimalString(n) : n \in 0..MaxValue}

\* a cell of the page renders formatTokenDisplay(value, decimals, digits)
FormatCall(value, decimals, digits) ==
    /\ unitsCall = Null
    /\ unitsCall' = Some([value |-> value, decimals |-> decimals,
                          digits |-> digits])
    /\ displayed' = Some(formatTokenDisplay(value, decimals, digits))
    /\ UNCHANGED parsedBack
    /\ UNCHANGED <<pipeVars, settleVars, scoreVars, cacheVars>>

\* the displayed string is read back with parseTokenInput
ParseCall ==
    /\ displayed # Null
    /\ parsedBack = Null
    /\ parsedBack' = Some(parseTokenInput(displayed[1], unitsCall[1].decimals))
    /\ UNCHANGED <<unitsCall, displayed>>
    /\ UNCHANGED <<pipeVars, settleVars, scoreVars, cacheVars>>

NextUnits ==
    \/ \E value \in UnitValues, decimals \in 0..MaxDecimals,
          digits \in 0..MaxDigits : FormatCall(value, decimals, digits)
    \/ ParseCall

SpecUnits == Init /\ [][NextUnits]_vars

---------------------------------------------------------------------------
(* The auth-token caches, run alone: concurrent calls of getMatchaToken    *)
(* and getInchToken against the module variables matchaCache and inchCache  *)

\* (mutant) a cached token is served whatever its expiry
cacheIsPresent(cache, t) == cache # Null

\* matchaCache && matchaCache.exp > now (and the same for inchCache)
cacheIsFresh(cache, t) ==
    /\ cache # Null
    /\ cache.exp # Undefined
    /\ cache.exp[1] > t

\* the module variable that the function of this kind reads and writes
cacheOf(kind) == IF kind = "matcha" THEN matchaCache ELSE inchCache

\* the exp field of a token response: absent, or a second of the clock
ExpOutcomes == {Undefined} \cup {Some(e) : e \in 1..MaxNow}

\* a call that found a fresh entry and returned its token at once
servedCall(kind, cache) ==
    [kind |-> kind, at |-> now, seen |-> cache, state |-> "returned",
     token |-> Some(cache.token), fetched |-> FALSE]

\* a call that is suspended at its await fetchJson(...)
fetchingCall(kind, cache) ==
    [kind |-> kind, at |-> now, seen |-> cache, state |-> "fetching",
     token |-> Null, fetched |-> TRUE]

\* getMatchaToken() or getInchToken() is called and runs to its return or
\* to its await
getToken(kind) ==
    /\ Len(calls) < MaxCalls
    /\ calls' = Append(calls, IF cacheIsFresh(cacheOf(kind), now)
                              THEN servedCall(kind, cacheOf(kind))
                              ELSE fetchingCall(kind, cacheOf(kind)))
    /\ UNCHANGED <<now, matchaCache, inchCache, fetches>>
    /\ UNCHANGED <<pipeVars, settleVars, scoreVars, unitVars>>

getMatchaToken == getToken("matcha")

getInchToken == getToken("inch")

\* the fetch of call i fails: the call throws at its await
TokenFetchFails(i) ==
    /\ i \in DOMAIN calls
    /\ calls[i].state = "fetching"
    /\ calls' = [calls EXCEPT ![i].state = "threw"]
    /\ UNCHANGED <<now, matchaCache, inchCache, fetches>>
    /\ UNCHANGED <<pipeVars, settleVars, scoreVars, unitVars>>

\* the fetch of call i answers {token, exp}: the call stores the pair in
\* its cache and returns the token
TokenFetchSettles(i, exp) ==
    /\ i \in DOMAIN calls
    /\ calls[i].state = "fetching"
    /\ LET entry == [token |-> i, exp |-> exp]
       IN  /\ matchaCache' = IF calls[i].kind = "matcha" THEN entry
                             ELSE matchaCache
           /\ inchCache' = IF calls[i].kind = "inch" THEN entry ELSE inchCache
           /\ fetches' = fetches \cup {entry}
           /\ calls' = [calls EXCEPT ![i].state = "returned",
                                     ![i].token = Some(entry.token)]
    /\ UNCHANGED now
    /\ UNCHANGED <<pipeVars, settleVars, scoreVars, unitVars>>

\* a second passes
Tick ==
    /\ now < MaxNow
    /\ now' = now + 1
    /\ UNCHANGED <<matchaCache, inchCache, calls, fetches>>
    /\ UNCHANGED <<pipeVars, settleVars, scoreVars, unitVars>>

NextCache ==
    \/ getMatchaToken
    \/ getInchToken
    \/ \E i \in 1..MaxCalls : TokenFetchFails(i)
    \/ \E i \in 1..MaxCalls, exp \in ExpOutcomes : TokenFetchSettles(i, exp)
    \/ Tick

SpecCache == Init /\ [][NextCache]_vars

---------------------------------------------------------------------------
(* Properties of settleQuotes (checked under SpecSettle) *)

\* the rows settleQuotes resolved with
returnedRows == returned.value[1]

\* C1: whatever the tasks and the order in which they settle, settleQuotes
\* resolves with a list as long as its input and in the input's order:
\* position i holds the RawQuote task i fulfilled with or, if task i
\* rejected, a row with task i's label as aggregator, failed = true and
\* amountOut, gasUsed and sources null.
C1_SettleQuotesKeepsInputOrder ==
    /\ returned.state # "rejected"
    /\ returned.state = "fulfilled" =>
          /\ Len(returnedRows) = Len(tasks[1])
          /\ \A i \in DOMAIN tasks[1] :
                /\ batch[i].state = "fulfilled" =>
                      returnedRows[i] = batch[i].value[1]
                /\ batch[i].state = "rejected" =>
                      /\ returnedRows[i].aggregator = tasks[1][i]
                      /\ returnedRows[i].failed = Some(TRUE)
                      /\ returnedRows[i].amountOut = Null
                      /\ returnedRows[i].gasUsed = Null
                      /\ returnedRows[i].sources = Null

\* a later task fulfilled before an earlier task, of another label, rejected
C1_Witness ==
    /\ returned.state = "fulfilled"
    /\ \E i, j \in DOMAIN batch :
          /\ i < j
          /\ tasks[1][i] # tasks[1][j]
          /\ batch[i].state = "rejected"
          /\ batch[j].state = "fulfilled"
          /\ batch[j].settledAt < batch[i].settledAt

\* C3: settleQuotes settles only once every task of the batch has settled,
\* and then at once; a rejected task does not keep the value of any
\* fulfilled task out of the list, and no shorter list is ever returned.
C3_SettleQuotesWaitsForAll ==
    /\ isSettled(returned) =>
          /\ tasks # Null
          /\ \A i \in DOMAIN batch : isSettled(batch[i])
          /\ returned.state = "fulfilled"
          /\ Len(returnedRows) = Len(batch)
          /\ \A i \in DOMAIN batch :
                batch[i].state = "fulfilled" =>
                    returnedRows[i] = batch[i].value[1]
    /\ (tasks # Null /\ \A i \in DOMAIN batch : isSettled(batch[i])) =>
          isSettled(returned)

\* the first task to settle rejected, and the value of a task that fulfilled
\* after it is in the list
C3_Witness ==
    /\ returned.state = "fulfilled"
    /\ \E i, j \in DOMAIN batch :
          /\ batch[i].state = "rejected"
          /\ batch[i].settledAt = 1
          /\ batch[j].state = "fulfilled"
          /\ batch[j].settledAt > 1
          /\ returnedRows[j] = batch[j].value[1]

---------------------------------------------------------------------------
(* Properties of getQuoteComparison (checked under Spec and SpecLive) *)

allLabels == baseLabels \o chunkLabels \o defaultLabels

awaiting == pc \in {"base", "chunks", "default"}

\* the response the caller got
answer == response[1]

\* the rows of the object the pipeline resolved with
resultRows == pipeline.value[1].results

timedOut ==
    /\ response # Null
    /\ answer.error = Some("getQuoteComparison timed out after 100 seconds")

\* C2 as stated: whenever the coordinator waits for adapter calls, every
\* adapter call of the request has been started.
C2_AllStartedBeforeAnyWait ==
    awaiting => started = Range(allLabels)

\* C2: the adapter calls are issued in three batches (the third-party
\* aggregators, then the chunked Blazing quotes, then the default Blazing
\* quote); every call of a batch has been started before the coordinator
\* waits for that batch, and a batch is issued only once the batch before
\* it has been collected in full.
C2_BatchStartedBeforeItsWait ==
    /\ pc \in {"idle", "tokenList", "price"} => started = {}
    /\ pc = "base" =>
          /\ started = Range(baseLabels)
          /\ Len(promises) = Len(baseLabels)
    /\ pc = "chunks" =>
          /\ started = Range(baseLabels) \cup Range(chunkLabels)
          /\ Len(promises) = Len(chunkLabels)
          /\ Len(baseQuotes) = Len(baseLabels)
    /\ pc = "default" =>
          /\ started = Range(allLabels)
          /\ Len(promises) = Len(defaultLabels)
          /\ Len(baseQuotes) = Len(baseLabels)
          /\ Len(chunkQuotes) = Len(chunkLabels)
    /\ pc = "done" => started = Range(allLabels)

\* the coordinator waits for the chunked quotes, none of which has settled,
\* and the default Blazing quote has not been started
C2_Witness ==
    /\ pc = "chunks"
    /\ \A i \in DOMAIN promises : ~isSettled(promises[i])
    /\ "Blazing Default" \notin started
    /\ Len(baseQuotes) = Len(baseLabels)

\* the row is the fallback quote of an adapter that got unusable data
isFallbackRow(row) ==
    /\ row.rawResponse = Undefined
    /\ row.amountOut = Some(<<"0">>)
    /\ row.gasUsed = Some(Int2Num(0))
    /\ row.sources = Some(<<>>)

unknownSymbol(symbol) ==
    \A token \in Range(tokenList[1]) \cup Range(fallbackTokenList) :
        toLowerCase(token.symbol) # toLowerCase(symbol)

requestedIn == IF req[1].tokenIn = Undefined THEN <<"W","E","T","H">>
               ELSE req[1].tokenIn[1]

requestedOut == IF req[1].tokenOut = Undefined THEN <<"W","B","T","C">>
                ELSE req[1].tokenOut[1]

requestedAmount ==
    IF req[1].tokenAmount = Undefined
    THEN <<"1","0","0","0","0","0","0","0","0","0","0","0","0","0","0","0",
           "0","0","0">>
    ELSE req[1].tokenAmount[1]

\* C6: when the reference-price call fails, or a requested symbol is in
\* neither the token list nor the built-in table, the pipeline ends there
\* and the response (unless the timer fired first) has status error, the
\* message of the error, tokenOutDecimals 0, gasPriceTokenIn "0" and no
\* results.
C6_FatalFailureResponse ==
    /\ (tokenList # Null /\ (unknownSymbol(requestedIn)
                               \/ unknownSymbol(requestedOut))) =>
          /\ pc = "failed"
          /\ pipeline = Rejected("Unsupported token symbol")
    /\ (pc = "failed" /\ ~timedOut) =>
          /\ response # Null
          /\ answer.status = "error"
          /\ answer.error = Some(pipeline.reason)
          /\ answer.tokenOutDecimals = 0
          /\ answer.gasPriceTokenIn = Some(<<"0">>)
          /\ answer.results = <<>>

\* the reference-price call failed and the response carries its message
C6_Witness ==
    /\ pc = "failed"
    /\ pipeline = Rejected("reference price request failed")
    /\ timer = "armed"
    /\ answer.error = Some("reference price request failed")

\* C7: when the timer fires before the pipeline has finished, the response
\* is the error response with the timeout message and no results, whatever
\* the pipeline had collected.
C7_TimeoutResponse ==
    /\ (timer = "fired" /\ pc \notin {"done", "failed"}) =>
          /\ response # Null
          /\ timedOut
    /\ timedOut =>
          /\ timer = "fired"
          /\ answer.status = "error"
          /\ answer.results = <<>>
          /\ answer.tokenOutDecimals = 0
          /\ answer.gasPriceTokenIn = Some(<<"0">>)

\* the timer fired while the chunked quotes were awaited: the base quotes
\* had been collected and are not in the response
C7_Witness ==
    /\ timer = "fired"
    /\ pc = "chunks"
    /\ Len(baseQuotes) = Len(baseLabels)
    /\ timedOut
    /\ answer.results = <<>>

\* C8: every request is eventually answered, even when a collaborator never
\* settles, given that the timer fires.
C8_EveryRequestAnswered == (req # Null) ~> (response # Null)

\* the request is answered while the reference-price call is still pending
C8_Witness ==
    /\ pc = "price"
    /\ pipeline = Pending
    /\ response # Null

\* C9: whatever the request and the collaborators' answers, as soon as the
\* pipeline or the timer settles the handler has resolved with an object of
\* status success or error, with error null exactly on success, no results
\* on error, and tokenIn, tokenOut and tokenAmount as requested.
C9_WellFormedResponse ==
    /\ (pc \in {"done", "failed"} \/ timer = "fired") => response # Null
    /\ response # Null =>
          /\ answer.status \in {"success", "error"}
          /\ (answer.error = Null) <=> (answer.status = "success")
          /\ answer.status = "error" => answer.results = <<>>
          /\ answer.tokenIn = requestedIn
          /\ answer.tokenOut = requestedOut
          /\ answer.tokenAmount = requestedAmount

\* a success response to a request that spelt its symbols in lower case
C9_Witness ==
    /\ response # Null
    /\ answer.status = "success"
    /\ answer.results # <<>>
    /\ req[1].tokenIn = Some(<<"w","e","t","h">>)
    /\ answer.tokenIn = <<"w","e","t","h">>

\* the symbol is one of the built-in table, in any case
isBuiltIn(symbol) ==
    \E token \in Range(fallbackTokenList) :
        toLowerCase(token.symbol) = toLowerCase(symbol)

\* C10: a request for two built-in symbols does not fail because the token
\* list could not be read: its pipeline fails only on the reference price.
C10_CatalogFailureIsNotFatal ==
    (pc = "failed" /\ isBuiltIn(requestedIn) /\ isBuiltIn(requestedOut)) =>
        pipeline = Rejected("reference price request failed")

---------------------------------------------------------------------------
(* Properties of calculateScores in the pipeline (checked under Spec) *)

\* the row is the quote of an adapter whose simulate call threw or was
\* never answered with a result
isUnsimulatedQuote(row) ==
    /\ row.aggregator \notin rejected
    /\ ~isFallbackRow(row)
    /\ isNullish(row.simulationResult)

\* C11 as stated: the row of a quote whose simulation call failed keeps
\* failed = false and its upstream amountOut, gasUsed and sources; only its
\* score is +infinity.
C11_SimulationFailureKeepsRow ==
    pipeline.state = "fulfilled" =>
        \A i \in DOMAIN resultRows :
            isUnsimulatedQuote(resultRows[i]) =>
                /\ resultRows[i].failed = Some(FALSE)
                /\ resultRows[i].amountOut = Some(<<"9","0","0">>)
                /\ resultRows[i].gasUsed = Some(Int2Num(50))
                /\ resultRows[i].sources = Some(<<"uniswap">>)
                /\ resultRows[i].score = Infinity

\* C12 as stated: in every success response a row is failed = true exactly
\* when its amountOut, gasUsed and sources are all null, and a failed row
\* carries no simulation result.
C12_FailedIffNullFields ==
    pipeline.state = "fulfilled" =>
        \A i \in DOMAIN resultRows :
            /\ resultRows[i].failed = Some(TRUE)
                  <=> /\ resultRows[i].amountOut = Null
                      /\ resultRows[i].gasUsed = Null
                      /\ resultRows[i].sources = Null
            /\ resultRows[i].failed = Some(TRUE) =>
                  isNullish(resultRows[i].simulationResult)

\* C14: when every row is failed, as when every adapter rejected, every row
\* has score +infinity, distance 0 and netOutput 0, and the pipeline still
\* resolves with status success and one row per adapter.
C14_AllFailedIsDegenerateSuccess ==
    /\ (pc = "done" /\ rejected = Range(allLabels)) =>
          \A i \in DOMAIN resultRows : resultRows[i].failed = Some(TRUE)
    /\ (/\ pipeline.state = "fulfilled"
        /\ \A i \in DOMAIN resultRows : resultRows[i].failed = Some(TRUE)) =>
          /\ pipeline.value[1].status = "success"
          /\ Len(resultRows) = Len(allLabels)
          /\ \A k \in DOMAIN allLabels :
                \E i \in DOMAIN resultRows :
                    resultRows[i].aggregator = allLabels[k]
          /\ \A i \in DOMAIN resultRows :
                /\ resultRows[i].score = Infinity
                /\ resultRows[i].distance = Int2Num(0)
                /\ resultRows[i].netOutput = Int2Num(0)

\* every adapter call of the request rejected and the response is a success
C14_Witness ==
    /\ pc = "done"
    /\ rejected = Range(allLabels)
    /\ response = pipeline.value
    /\ answer.status = "success"
    /\ \A i \in DOMAIN resultRows : resultRows[i].amountOut = Null

---------------------------------------------------------------------------
(* Properties of calculateScores and of the sort (checked under SpecScore) *)

\* the arguments and the result of the call of calculateScores
rawRows == scoreInput[1].raw

rows == scoredRows[1]

\* Number(amountIn) is a number other than 0
hasInputAmount ==
    /\ isDigitString(scoreInput[1].amountIn)
    /\ digitsValue(scoreInput[1].amountIn) # 0

\* amountOut - gasUsed * gasPriceRatio * amountOut / inputAmount of a quote
netOutputOf(item) ==
    LET amountOut == Int2Num(digitsValue(item.amountOut[1]))
        inputAmount == Int2Num(digitsValue(scoreInput[1].amountIn))
    IN  IF hasInputAmount
        THEN minus(amountOut,
                   dividedBy(multipliedBy(multipliedBy(item.gasUsed[1],
                                              scoreInput[1].gasPriceTokenIn),
                                          amountOut),
                             inputAmount))
        ELSE amountOut

\* the simulation of the row is there and marked successful
simulatedOk(row) ==
    /\ ~isNullish(row.simulationResult)
    /\ row.simulationResult[1].isSuccessful

\* C13 as stated: when no row has a successful simulation and some row is
\* unfailed, every score is +infinity and every unfailed row keeps its
\* amountOut and the netOutput computed from its amountOut and gas.
C13_NoSimulationKeepsNetOutput ==
    (/\ scoredRows # Null
     /\ \A i \in DOMAIN rawRows : ~simulatedOk(rawRows[i])
     /\ \E i \in DOMAIN rawRows : rawRows[i].amountOut # Null) =>
        \A i \in DOMAIN rows :
            /\ rows[i].score = Infinity
            /\ rawRows[i].amountOut # Null =>
                  /\ rows[i].amountOut = rawRows[i].amountOut
                  /\ rows[i].netOutput = netOutputOf(rawRows[i])

\* C15 as stated: whatever the upstream payloads carry, netOutput and
\* distance of every row are finite numbers and score is a finite number or
\* +infinity.
C15_NoNaNReachesCaller ==
    scoredRows # Null =>
        \A i \in DOMAIN rows :
            /\ rows[i].netOutput.k = "fin"
            /\ rows[i].distance.k = "fin"
            /\ rows[i].score.k = "fin" \/ rows[i].score = Infinity

\* C16: the distance of every row is a number that is not negative, and a
\* row whose netOutput no other row exceeds has distance 0, also when the
\* netOutput values are negative.
C16_DistanceNonNegative ==
    scoredRows # Null =>
        \A i \in DOMAIN rows :
            /\ rows[i].distance.k = "fin"
            /\ rows[i].distance.n >= 0
            /\ (\A j \in DOMAIN rows : ~Lt(rows[i].netOutput, rows[j].netOutput))
                  => rows[i].distance = Int2Num(0)

\* two unfailed rows with distinct negative netOutput and no better row: the
\* greater has distance 0, and so has the other as the maximum is not positive
C16_Witness ==
    /\ scoredRows # Null
    /\ \E i, j \in DOMAIN rows :
          /\ rows[i].failed = Some(FALSE)
          /\ rows[j].failed = Some(FALSE)
          /\ Lt(rows[i].netOutput, rows[j].netOutput)
          /\ Lt(rows[j].netOutput, Int2Num(0))
          /\ \A k \in DOMAIN rows : ~Lt(rows[j].netOutput, rows[k].netOutput)
          /\ rows[j].distance = Int2Num(0)

\* the rows after the sort and the order they were sorted by
ranked == orderedRows[1].rows

\* C17 as stated: ranking by net places a row with the maximum netOutput
\* first, and ranking by score places a row with the minimum score first.
C17_BestRowFirst ==
    (orderedRows # Null /\ ranked # <<>>) =>
        /\ orderedRows[1].order = "net" =>
              \A j \in DOMAIN ranked :
                  ~Lt(ranked[1].netOutput, ranked[j].netOutput)
        /\ orderedRows[1].order = "score" =>
              \A j \in DOMAIN ranked : ~Lt(ranked[j].score, ranked[1].score)

\* C18: every row whose simulation is absent or marked unsuccessful has
\* score +infinity, and under score ordering it comes after every row that
\* has a finite score.
C18_UnsimulatedRowsLast ==
    /\ scoredRows # Null =>
          \A i \in DOMAIN rows : ~simulatedOk(rows[i]) => rows[i].score = Infinity
    /\ (orderedRows # Null /\ orderedRows[1].order = "score") =>
          \A i, j \in DOMAIN ranked :
              (~simulatedOk(ranked[i]) /\ ranked[j].score.k = "fin") => j < i

\* rows handed over with an unsimulated row ahead of a row that gets a
\* finite score, sorted by score
C18_Witness ==
    /\ orderedRows # Null
    /\ orderedRows[1].order = "score"
    /\ \E i, j \in DOMAIN rows :
          /\ i < j
          /\ ~simulatedOk(rows[i])
          /\ rows[j].score.k = "fin"
          /\ ranked[1] = rows[j]

\* the indices of the rows handed over with a simulation marked successful
simulated == {i \in DOMAIN rawRows : simulatedOk(rawRows[i])}

\* the simulated output and the simulated gas (approve gas + swap gas) of row i
outputOf(i) ==
    Int2Num(digitsValue(rawRows[i].simulationResult[1].outputTokenAmount[1]))

gasOf(i) ==
    plus(rawRows[i].simulationResult[1].approveTxGasUsed[1],
         rawRows[i].simulationResult[1].swapTxGasUsed[1])

isMaxOutput(i) == \A j \in simulated : ~Lt(outputOf(i), outputOf(j))

isMinOutput(i) == \A j \in simulated : ~Lt(outputOf(j), outputOf(i))

isMaxGas(i) == \A j \in simulated : ~Lt(gasOf(i), gasOf(j))

isMinGas(i) == \A j \in simulated : ~Lt(gasOf(j), gasOf(i))

\* (value - min) / (max - min) over the simulated rows, `tie` if max = min
outputNormOf(i) ==
    LET lo == CHOOSE j \in simulated : isMinOutput(j)
        hi == CHOOSE j \in simulated : isMaxOutput(j)
    IN  IF outputOf(lo) = outputOf(hi) THEN Int2Num(1)
        ELSE dividedBy(minus(outputOf(i), outputOf(lo)),
                       minus(outputOf(hi), outputOf(lo)))

gasNormOf(i) ==
    LET lo == CHOOSE j \in simulated : isMinGas(j)
        hi == CHOOSE j \in simulated : isMaxGas(j)
    IN  IF gasOf(lo) = gasOf(hi) THEN Int2Num(0)
        ELSE dividedBy(minus(gasOf(i), gasOf(lo)), minus(gasOf(hi), gasOf(lo)))

\* ((outputNorm - 1)^2 + gasNorm^2) / 2: the square of the score of row i
squaredScoreOf(i) ==
    dividedBy(plus(multipliedBy(minus(outputNormOf(i), Int2Num(1)),
                                minus(outputNormOf(i), Int2Num(1))),
                   multipliedBy(gasNormOf(i), gasNormOf(i))),
              Int2Num(2))

\* (m/2)^2 * 10^-12 <= q for a natural m and a rational q >= 0
halfUnitsBelow(m, q) ==
    natLeq(natTimes(natTimes(natOf(m), m), q.d),
           natTimes(natTimes(natTimes(natOf(q.n), 1000000), 1000000), 4))

\* the score s is the root of q rounded half up to 6 decimals
isRootRounded(s, q) ==
    /\ s.k = "fin"
    /\ s.n >= 0
    /\ 1000000 % s.d = 0
    /\ LET m == s.n * (1000000 \div s.d)
       IN  /\ m = 0 \/ halfUnitsBelow(2 * m - 1, q)
           /\ ~halfUnitsBelow(2 * m + 1, q)

C20_NetOutputFormula ==
    (scoredRows # Null /\ hasInputAmount) =>
        \A i \in DOMAIN rows :
            /\ rows[i].failed = Some(FALSE) =>
                  rows[i].netOutput = netOutputOf(rawRows[i])
            /\ rows[i].failed = Some(TRUE) => rows[i].netOutput = Int2Num(0)

---------------------------------------------------------------------------
(* Properties of the gas price ratio *)

RECURSIVE natPow(_, _)
\* the natural 2^(16 * e) in limbs
natPow(a, e) == IF e = 0 THEN a ELSE natPow(natTimes(a, 65536), e - 1)

\* the ratio x times 2^96 is the non-negative integer r
isOver2Pow96(x, r) ==
    /\ x.k = "fin"
    /\ x.n >= 0
    /\ natPow(natOf(x.n), 6) = natTimes(natOf(r), x.d)

\* C21: once the reference price R is known, the gas price ratio handed to
\* calculateScores is R / 2^96 exactly, that is ratio * 2^96 = R.
C21_RatioIsRawOver2Pow96 ==
    (pc \in {"base", "chunks", "default", "done"} /\ ~isNullish(gasPriceRaw))
        => isOver2Pow96(gasPriceTokenIn(gasPriceRaw),
                        digitsValue(gasPriceRaw[1]))

---------------------------------------------------------------------------
(* Properties of the ranking *)

\* amountOut of the row is a numeral
hasParsableAmount(row) ==
    /\ ~isNullish(row.amountOut)
    /\ isDigitString(row.amountOut[1])

\* C22: ranking by output returns the rows in descending numeric order of
\* amountOut, and every row whose amountOut is null or not a numeral comes
\* after every row whose amountOut is a numeral.
C22_OutputOrderNullLast ==
    (pipeline.state = "fulfilled" /\ toOrder(req[1].order) = "output") =>
        \A i, j \in DOMAIN resultRows :
            i < j =>
                /\ (hasParsableAmount(resultRows[i])
                        /\ hasParsableAmount(resultRows[j]))
                     => digitsValue(resultRows[i].amountOut[1])
                            >= digitsValue(resultRows[j].amountOut[1])
                /\ ~(~hasParsableAmount(resultRows[i])
                        /\ hasParsableAmount(resultRows[j]))

\* the number of times the row occurs in the list
occurrences(list, row) == Cardinality({i \in DOMAIN list : list[i] = row})

\* C23: for every ordering key the ranked list is a permutation of the
\* scored rows: every row occurs as often as among the scored rows, with
\* all its fields (netOutput, distance, score, raw fields) as they were.
C23_RankingIsPermutation ==
    orderedRows # Null =>
        /\ Len(ranked) = Len(rows)
        /\ \A row \in Range(rows) \cup Range(ranked) :
               occurrences(ranked, row) = occurrences(rows, row)

\* a ranking that moved rows, with a row that occurs twice
C23_Witness ==
    /\ orderedRows # Null
    /\ ranked # rows
    /\ \E row \in Range(rows) : occurrences(rows, row) = 2
    /\ \E row \in Range(rows) : row.failed = Some(TRUE)

---------------------------------------------------------------------------
(* Properties of the rows of a success response *)

\* C24: a success response has exactly one row per requested source (the 4
\* aggregators, one per chunk size, 1 default; 17 with the 12 chunk sizes
\* of the code) with pairwise distinct aggregator names, whichever adapter
\* calls failed: a source that failed has a failed row.
C24_OneRowPerSource ==
    /\ Len(baseLabels) + Len(chunkSizes) + Len(defaultLabels) = 17
    /\ \A i, j \in DOMAIN chunkSizes : chunkSizes[i] = chunkSizes[j] => i = j
    /\ (response # Null /\ answer.status = "success") =>
          /\ Len(answer.results) = Len(allLabels)
          /\ \A label \in Range(allLabels) :
                Cardinality({i \in DOMAIN answer.results :
                                answer.results[i].aggregator = label}) = 1
          /\ \A i \in DOMAIN answer.results :
                answer.results[i].aggregator \in rejected
                    => answer.results[i].failed = Some(TRUE)

\* a success response after adapter calls of all three batches rejected
C24_Witness ==
    /\ response # Null
    /\ answer.status = "success"
    /\ {"KyberSwap", "Blazing chunks 5", "Blazing Default"} \subseteq rejected
    /\ \E label \in Range(allLabels) : label \notin rejected

---------------------------------------------------------------------------
(* Properties of the unit conversions (checked under SpecUnits) *)

\* the base-unit integer that was displayed
originalUnits == digitsValue(unitsCall[1].value)

\* the base-unit integer that parseTokenInput recovered
recoveredUnits == digitsValue(parsedBack[1][1])

\* C25: a non-negative base-unit integer displayed with d fractional digits
\* and parsed back is truncated, never rounded up: the recovered integer r
\* satisfies r <= original and original - r < 10^(decimals - d), and
\* r = original when decimals <= d.
C25_RoundTripTruncates ==
    parsedBack # Null =>
        /\ parsedBack[1] # Null
        /\ recoveredUnits <= originalUnits
        /\ IF unitsCall[1].decimals <= unitsCall[1].digits
           THEN recoveredUnits = originalUnits
           ELSE originalUnits - recoveredUnits
                    < Pow10(unitsCall[1].decimals - unitsCall[1].digits)

\* a round trip that lost digits: 1099 of a token with 3 decimals, shown
\* with 2 fractional digits as 1.09, comes back as 1090
C25_Witness ==
    /\ parsedBack # Null
    /\ unitsCall[1].value = <<"1","0","9","9">>
    /\ unitsCall[1].decimals = 3
    /\ unitsCall[1].digits = 2
    /\ displayed = Some(<<"1",".","0","9">>)
    /\ parsedBack[1] = Some(<<"1","0","9","0">>)

---------------------------------------------------------------------------
(* Properties of the order of the upstream calls (checked under Spec) *)

\* C26: no adapter call (and so no simulation call, which only an adapter
\* makes) is issued unless both tokens were resolved and the
\* reference-price call has succeeded: while a token is unresolved or the
\* price is not known, and for good once token resolution or the price
\* call failed, no adapter call of the request has been started.
C26_NoAdapterCallBeforePrice ==
    (tokenIn = Null \/ tokenOut = Null \/ gasPriceRaw = Null)
        => (started = {} /\ promises = <<>>)

\* the price call failed after both tokens were resolved, and the request
\* was answered with an error without any adapter call
C26_Witness ==
    /\ pc = "failed"
    /\ tokenIn # Null
    /\ tokenOut # Null
    /\ gasPriceRaw = Null
    /\ response # Null
    /\ answer.status = "error"
    /\ started = {}

---------------------------------------------------------------------------
(* Properties of the race between the pipeline and the timer *)

\* a step in which the pipeline promise settles
pipelineSettlesNow == pipeline.state = "pending" /\ pipeline'.state # "pending"

\* a step in which the timer fires
timerFiresNow == timer = "armed" /\ timer' = "fired"

\* the step leaves the response as it was once it is decided, and decides
\* it by the first of pipeline completion, pipeline failure and timer expiry
raceDecidesOnce ==
    /\ response # Null => response' = response
    /\ (response = Null /\ pipelineSettlesNow /\ pipeline'.state = "fulfilled")
          => response' = pipeline'.value
    /\ (response = Null /\ pipelineSettlesNow /\ pipeline'.state = "rejected")
          => response' = Some(errorResponse(req[1], pipeline'.reason))
    /\ (response = Null /\ timerFiresNow)
          => response' = Some(errorResponse(req[1], timeoutMessage))
    /\ (response' # Null) <=> (pipeline'.state # "pending" \/ timer' = "fired")

\* C27: each request yields exactly one response, decided by whichever of
\* pipeline completion, pipeline failure and timer expiry happens first; an
\* event after that (the timer firing after the pipeline settled, the
\* abandoned pipeline completing or failing after the timeout) is taken by
\* the race and changes nothing of the response.
C27_FirstSettlementDecides == [][raceDecidesOnce]_vars

\* the abandoned pipeline completed after the timeout had been answered
C27_Witness ==
    /\ timedOut
    /\ pipeline.state = "fulfilled"
    /\ pc = "done"

---------------------------------------------------------------------------
(* Properties of the calldata build of KyberSwap and 1Inch *)

\* the quote fetch of the adapter call succeeded with a usable quote
quoteFetched(up) == up.auth /\ up.fetch # Null /\ up.fetch[1].usable

\* the row of base task i as the step leaves it: the settled promise while
\* the batch is still awaited, the collected quote once it is through
rowAfterStep(i) ==
    IF pc' = "base"
    THEN (IF promises'[i].state = "fulfilled" THEN promises'[i].value[1]
          ELSE syntheticRow(baseLabels[i]))
    ELSE baseQuotes'[i]

\* a step in which the KyberSwap or 1Inch call settles after its quote was
\* fetched: a failed calldata build rejects the call and leaves the
\* synthetic failed row, a failed simulation keeps the quote
buildFailureDiscardsQuote ==
    \A i \in {1, 2}, up \in BaseOutcomes :
        (pc = "base" /\ quoteFetched(up) /\ AdapterSettles(i, up)) =>
            IF ~up.build
            THEN /\ baseLabels[i] \in rejected'
                 /\ pc' = "base" => promises'[i].state = "rejected"
                 /\ pc' \in {"base", "chunks"} =>
                       /\ rowAfterStep(i).amountOut = Null
                       /\ rowAfterStep(i).gasUsed = Null
                       /\ rowAfterStep(i).sources = Null
                       /\ rowAfterStep(i).failed = Some(TRUE)
            ELSE /\ baseLabels[i] \notin rejected'
                 /\ pc' \in {"base", "chunks"} =>
                       /\ rowAfterStep(i).amountOut = up.fetch[1].amountOut
                       /\ rowAfterStep(i).failed # Some(TRUE)

\* C28: in the KyberSwap and 1Inch adapters, when the quote fetch succeeds
\* but the calldata-build call fails, the adapter call rejects and its row
\* is the synthetic failed row (amountOut, gasUsed, sources null): the quote
\* is discarded, whereas a failed simulation call keeps the row unfailed.
C28_BuildFailureDiscardsQuote == [][buildFailureDiscardsQuote]_vars

\* the KyberSwap call rejected at the calldata build while 1Inch, whose
\* simulation failed, kept its quote
C28_Witness ==
    /\ pc = "base"
    /\ promises[1] = Rejected("Cannot read properties of null (reading 'data')")
    /\ "KyberSwap" \in rejected
    /\ promises[2].state = "fulfilled"
    /\ promises[2].value[1].amountOut = Some(<<"9","0","0">>)
    /\ promises[2].value[1].simulationResult = Undefined

---------------------------------------------------------------------------
(* Properties of the auth-token caches (checked under SpecCache) *)

\* the cache is empty or holds the pair that one completed fetch of a call
\* of its kind stored
holdsOneFetch(kind) ==
    \/ cacheOf(kind) = Null
    \/ /\ cacheOf(kind) \in fetches
       /\ calls[cacheOf(kind).token].kind = kind
       /\ calls[cacheOf(kind).token].state = "returned"
       /\ calls[cacheOf(kind).token].fetched

\* the entry the call saw had not expired when it was called
sawFreshEntry(call) ==
    /\ call.seen # Null
    /\ call.seen.exp # Undefined
    /\ call.seen.exp[1] > call.at

\* every cache holds one fetch's pair; a call was served from the cache
\* without a fetch exactly when the entry it saw had exp > now, and any
\* other call issued a fetch of its own, which stored a pair only if it
\* completed
cacheInvariant ==
    /\ \A kind \in {"matcha", "inch"} : holdsOneFetch(kind)
    /\ \A i \in DOMAIN calls :
          /\ calls[i].fetched <=> ~sawFreshEntry(calls[i])
          /\ ~calls[i].fetched =>
                /\ calls[i].state = "returned"
                /\ calls[i].token = Some(calls[i].seen.token)
          /\ (calls[i].fetched /\ calls[i].state = "returned") =>
                /\ calls[i].token = Some(i)
                /\ \E entry \in fetches : entry.token = i
          /\ calls[i].state \in {"fetching", "threw"} =>
                \A entry \in fetches : entry.token # i

\* a step in which a fetch fails leaves both caches as they were
failedFetchKeepsCache ==
    \A i \in DOMAIN calls :
        (calls[i].state = "fetching" /\ calls'[i].state = "threw") =>
            (matchaCache' = matchaCache /\ inchCache' = inchCache)

\* C29: under any interleaving of concurrent calls, each auth-token cache
\* (Matcha, 1inch) is empty or holds a {token, exp} pair stored by one
\* successfully completed fetch; a token is served from the cache without a
\* fetch exactly while exp > now; a failed fetch leaves the cache unchanged;
\* and calls that observe a missing or expired entry each issue their own
\* fetch, whatever fetches are in flight.
C29_CacheHoldsOneFetch ==
    []cacheInvariant /\ [][failedFetchKeepsCache]_vars

\* two getMatchaToken calls saw the empty cache and each fetched; the fetch
\* of the first call completed last and its pair is the one cached; a third
\* call was served that token from the cache without a fetch
C29_Witness ==
    /\ Len(calls) = 3
    /\ \A i \in {1, 2} :
          /\ calls[i].kind = "matcha"
          /\ calls[i].seen = Null
          /\ calls[i].fetched
          /\ calls[i].state = "returned"
    /\ matchaCache # Null
    /\ matchaCache.token = 1
    /\ calls[3].kind = "matcha"
    /\ ~calls[3].fetched
    /\ calls[3].token = Some(1)

---------------------------------------------------------------------------
(* Properties of the gas adjustment for a request without an input amount *)

\* Number(tokenAmount) of the request is a number other than 0
requestHasAmount ==
    /\ isDigitString(requestedAmount)
    /\ digitsValue(requestedAmount) # 0

\* C30: when the request's input amount parses to zero or is not a number,
\* the gas adjustment is skipped: the pipeline still ends with status
\* success and every unfailed row's netOutput equals its amountOut.
C30_NoAmountSkipsGasAdjustment ==
    (pipeline.state = "fulfilled" /\ ~requestHasAmount) =>
        /\ pipeline.value[1].status = "success"
        /\ \A i \in DOMAIN resultRows :
              resultRows[i].failed # Some(TRUE) =>
                  resultRows[i].netOutput = Number(resultRows[i].amountOut)

\* a success response to a request whose amount is not a number, with an
\* unfailed row that has a gas cost and kept netOutput = amountOut = 900
C30_Witness ==
    /\ pipeline.state = "fulfilled"
    /\ response # Null
    /\ answer.status = "success"
    /\ req[1].tokenAmount = Some(<<"a","b","c">>)
    /\ \E i \in DOMAIN resultRows :
          /\ resultRows[i].failed # Some(TRUE)
          /\ resultRows[i].gasUsed = Some(Int2Num(50))
          /\ resultRows[i].netOutput = Int2Num(900)

====
